---------------------------- MODULE Spec2Model ----------------------------
(***************************************************************************)
(* Intraday stock ETL: transform (validation of OHLCV entries), loader     *)
(* (upsert by natural key, job log), pipeline orchestration                *)
(* (process_stock_intraday / process_multiple_stocks_intraday), the        *)
(* extractor's rate limiter, the streaming service's worker thread and the *)
(* market scheduler (market hours, scheduled jobs).                        *)
(* Each subsystem has its own specification over the shared variables; a   *)
(* specification leaves the variables of the other subsystems at their     *)
(* idle values.                                                            *)
(***************************************************************************)
EXTENDS Integers, Sequences, FiniteSets, TLC

VARIABLES
    \* DataTransformer._create_price_objects: its argument and its result
    time_series, price_records, xf_pc,
    \* the store: the rows of stocks, stock_prices_intraday and etl_job_logs,
    \* and whether DatabaseManager.connection_pool is initialised
    stocks, stock_prices_intraday, etl_job_logs, connection_pool,
    \* process_multiple_stocks_intraday: its argument, the number of symbols
    \* the loop has processed, and its results dict
    symbols, idx, results,
    \* history: the process_stock_intraday calls of the current run, what the
    \* last of them did, and the loader call made last
    history, last,
    \* the loader called directly: what the last call did, and the calls so far
    loaded, loads,
    \* DataExtractor's rate limiter: time.time(), last_call_time, and history:
    \* the times at which _rate_limit returned and what its last call did
    clock, last_call_time, acquired, limited,
    \* DataStreamingService: is_running, stop_event, streaming_thread, the
    \* worker threads started so far, where the caller of stop_streaming is,
    \* and history: what the last start_streaming call did, and the last
    \* stop_streaming call
    is_running, stop_event, streaming_thread, workers, caller_pc, started,
    stopped,
    \* MarketScheduler: market_schedule and scheduled_jobs (in insertion
    \* order); the instant and the answer of the last question about market
    \* hours; what the last call on the scheduled jobs did
    market_schedule, scheduled_jobs, asked_at, answer, sched_call,
    \* the process started through trigger_pipeline: the handler installed for
    \* SIGINT and SIGTERM, ETLRunner.is_running, whether the process has
    \* exited, and history: what the last signal delivered did
    signal_handler, runner_is_running, exited, signalled,
    \* the threads of the process that call _rate_limit: last_call_time of
    \* each DataExtractor, where each thread is in _rate_limit with its locals,
    \* and history: the requests sent, in order
    extractors, callers, admitted,
    \* the connections of the pool that getconn handed out and putconn has
    \* not taken back, with the thread holding each; where each thread running
    \* the pipeline is, with the locals of its execute_query call
    borrowed, pipelines,
    \* the loaders upserting one price record each at the same time: where
    \* each is in _load_single_price_record, with its locals
    loaders

xfVars == <<time_series, price_records, xf_pc>>
dbVars == <<stocks, stock_prices_intraday, etl_job_logs, connection_pool>>
runVars == <<symbols, idx, results, history, last>>
loadVars == <<loaded, loads>>
rateVars == <<clock, last_call_time, acquired, limited>>
streamVars == <<is_running, stop_event, streaming_thread, workers, caller_pc,
                started, stopped>>
schedVars == <<market_schedule, scheduled_jobs, asked_at, answer,
               sched_call>>
procVars == <<signal_handler, runner_is_running, exited, signalled>>
callVars == <<extractors, callers, admitted>>
poolVars == <<borrowed, pipelines>>
raceVars == <<loaders>>
vars == <<xfVars, dbVars, runVars, loadVars, rateVars, streamVars, schedVars,
    procVars, callVars, poolVars, raceVars>>
nonXfVars == <<dbVars, runVars, loadVars, rateVars, streamVars, schedVars,
    procVars, callVars, poolVars, raceVars>>
nonRunVars == <<xfVars, loadVars, rateVars, streamVars, schedVars,
    procVars, callVars, poolVars, raceVars>>
nonLoadVars == <<xfVars, runVars, rateVars, streamVars, schedVars,
    procVars, callVars, poolVars, raceVars>>
nonRateVars == <<xfVars, dbVars, runVars, loadVars, streamVars, schedVars,
    procVars, callVars, poolVars, raceVars>>
nonStreamVars == <<xfVars, dbVars, runVars, loadVars, rateVars, schedVars,
    procVars, callVars, poolVars, raceVars>>
nonSchedVars == <<xfVars, dbVars, runVars, loadVars, rateVars, streamVars,
    procVars, callVars, poolVars, raceVars>>

-----------------------------------------------------------------------------
(* Bounds of the model                                                      *)

MaxSeries == 2      \* entries of one raw time series

MaxResponseSeries == 1   \* entries of the series in a provider response

MaxSymbols == 2     \* symbols in one process_multiple_stocks_intraday call

MaxLoads == 2       \* direct calls of the loader in one behaviour

MaxCalls == 3       \* calls of _rate_limit in one behaviour
MaxLate == 1        \* seconds a sleep or a clock read comes late

MaxWorkers == 2     \* streaming threads started in one behaviour
MaxIterations == 1  \* largest max_iterations given to start_streaming
MaxWait == 1        \* largest wait_seconds of a worker's wait loop
MaxLiveWorkers == 1 \* streaming threads started in one fair behaviour
MaxBatch == 2       \* records in one load_intraday_prices batch
MaxCallers == 2     \* threads that call _rate_limit side by side
MaxElapsed == 2     \* seconds that go by one by one while they do

MaxConn == 1        \* connections of the pool (maxconn)
MaxPipelines == 2   \* threads that run the pipeline side by side
MaxStatements == 2  \* execute_query calls of one load stage

MaxLoaders == 2     \* loaders that upsert the same key side by side

(* Program constants                                                        *)

PriceCeiling == 1000000    \* transform.py: "no prices over $1M"
DecimalLimit == 1000000    \* DECIMAL(10,4): |value| < 10^6
rate_limit_delay == 12     \* extract.py: seconds between calls (60/5 = 12)

-----------------------------------------------------------------------------
(* Python values.  A float is a record: nan says whether it is NaN, n is    *)
(* its value otherwise.  Every comparison with NaN is False, as in IEEE 754 *)
(* and Python.                                                              *)

Num(n) == [nan |-> FALSE, n |-> n]
NaN == [nan |-> TRUE, n |-> 0]

FLt(a, b) == ~a.nan /\ ~b.nan /\ a.n < b.n
FGt(a, b) == FLt(b, a)
FLe(a, b) == ~a.nan /\ ~b.nan /\ a.n <= b.n

\* Python's max(a, b) / min(a, b): the first argument unless the second is
\* strictly greater / smaller.
PyMax(a, b) == IF FGt(b, a) THEN b ELSE a
PyMin(a, b) == IF FLt(b, a) THEN b ELSE a

(* A field of a raw entry, as the provider's JSON gives it: a numeric       *)
(* string, the string "nan", a non-numeric string, or no field at all.      *)
FNum(n) == [k |-> "num", n |-> n]
FNan == [k |-> "nan", n |-> 0]
FText == [k |-> "text", n |-> 0]
FMissing == [k |-> "missing", n |-> 0]

\* float(price_data.get(label, 0)): the default 0 for a missing field, NaN for
\* "nan", ValueError for a non-numeric string.
PyFloat(f) ==
    CASE f.k = "num" -> [err |-> FALSE, val |-> Num(f.n)]
      [] f.k = "missing" -> [err |-> FALSE, val |-> Num(0)]
      [] f.k = "nan" -> [err |-> FALSE, val |-> NaN]
      [] OTHER -> [err |-> TRUE, val |-> Num(0)]

\* int(price_data.get('5. volume', 0)): int("nan") and int("abc") raise.
PyInt(f) ==
    CASE f.k = "num" -> [err |-> FALSE, val |-> f.n]
      [] f.k = "missing" -> [err |-> FALSE, val |-> 0]
      [] OTHER -> [err |-> TRUE, val |-> 0]

(* A timestamp string: the instant it denotes and the format it is written  *)
(* in.  "invalid" is a string no format and no flexible parser accepts.     *)
TsForms == {"%Y-%m-%d %H:%M:%S", "%Y-%m-%d %H:%M", "dateutil", "invalid"}

\* _parse_timestamp: the instant, or ValueError.
parse_timestamp(ts) ==
    IF ts.form \in {"%Y-%m-%d %H:%M:%S", "%Y-%m-%d %H:%M", "%Y-%m-%d"}
    THEN [err |-> FALSE, val |-> ts.t]
    ELSE IF ts.form = "dateutil"
         THEN [err |-> FALSE, val |-> ts.t]
         ELSE [err |-> TRUE, val |-> 0]

-----------------------------------------------------------------------------
(* DataTransformer                                                          *)

\* _validate_price_data: each check returns False when its condition is true.
validate_price_data(open_price, high_price, low_price, close_price, volume) ==
    LET prices == {open_price, high_price, low_price, close_price} IN
    /\ ~(\E p \in prices : FLe(p, Num(0)))
    /\ ~(volume < 0)
    /\ ~FLt(high_price, PyMax(open_price, close_price))
    /\ ~FGt(low_price, PyMin(open_price, close_price))
    /\ ~(\E p \in prices : FGt(p, Num(PriceCeiling)))

StockPriceIntraday(symbol, timestamp, o, h, l, c, v, interval) ==
    [stock_symbol |-> symbol, timestamp |-> timestamp,
     open_price |-> o, high_price |-> h, low_price |-> l, close_price |-> c,
     volume |-> v, interval |-> interval]

\* One pass of the loop body of _create_price_objects: the record appended for
\* the entry, or nothing (a parse error or a failed validation skips the entry).
price_object(symbol, e, interval) ==
    LET ts == parse_timestamp(e.ts)
        o == PyFloat(e.open)
        h == PyFloat(e.high)
        l == PyFloat(e.low)
        c == PyFloat(e.close)
        v == PyInt(e.volume)
    IN  IF ts.err \/ o.err \/ h.err \/ l.err \/ c.err \/ v.err
        THEN <<>>
        ELSE IF ~validate_price_data(o.val, h.val, l.val, c.val, v.val)
             THEN <<>>
             ELSE <<StockPriceIntraday(symbol, ts.val, o.val, h.val, l.val,
                                       c.val, v.val, interval)>>

\* _create_price_objects: the entries of the series in order.
RECURSIVE create_price_objects(_, _, _)
create_price_objects(symbol, series, interval) ==
    IF series = <<>>
    THEN <<>>
    ELSE price_object(symbol, Head(series), interval)
         \o create_price_objects(symbol, Tail(series), interval)


-----------------------------------------------------------------------------
(* The store.  A handler runs against a store value s: the three tables,    *)
(* the connection pool, and the handler's environment: n counts the         *)
(* execute_query calls made so far and faults names the ones that raise     *)
(* (a lost connection, a violated constraint, a failed rollback).  logfail  *)
(* records that a job-log INSERT raised, written counts the INSERTs and     *)
(* UPDATEs of stock_prices_intraday that were committed.                    *)

Store(st, pr, lg, pool, faults) ==
    [stocks |-> st, prices |-> pr, logs |-> lg, pool |-> pool,
     n |-> 0, faults |-> faults, logfail |-> FALSE, written |-> 0]

\* DatabaseManager.execute_query: get_connection raises when the pool is not
\* initialised; otherwise the statement raises when the environment says so.
Raises(s) == ~s.pool \/ (s.n + 1) \in s.faults
Issue(s) == [s EXCEPT !.n = @ + 1]

NoneVal == [none |-> TRUE]

-----------------------------------------------------------------------------
(* DataExtractor.extract_intraday_data on the provider's response           *)

\* A last-call time taken from the clock read made before the wait.
stamp_before_wait(current_time, after_wait) == current_time

\* self.last_call_time = time.time(): the clock read made after the wait.
stamp(current_time, after_wait) == after_wait

\* _rate_limit.  current_time: the first clock read; overslept: how long past
\* sleep_time the sleep lasted; late: the time from the end of the wait to the
\* second clock read.  woke is when the wait was over, done when the call
\* returned.
rate_limit(last_call, current_time, overslept, late) ==
    LET time_since_last_call == current_time - last_call
        sleep_time == IF time_since_last_call < rate_limit_delay
                      THEN rate_limit_delay - time_since_last_call
                      ELSE 0
        woke == IF time_since_last_call < rate_limit_delay
                THEN current_time + sleep_time + overslept
                ELSE current_time
    IN  [last_call_time |-> stamp(current_time, woke + late),
         current_time |-> current_time, sleep_time |-> sleep_time,
         woke |-> woke, done |-> woke + late]

Upper(symbol) == IF symbol = "msft" THEN "MSFT" ELSE symbol

extract_intraday_data(symbol, interval, response) ==
    CASE response.kind = "RequestException" -> NoneVal
      [] response.kind = "Error Message" -> NoneVal
      [] response.kind = "Note" -> NoneVal
      [] response.kind = "no Time Series" -> NoneVal
      [] OTHER ->
           IF response.time_series = <<>>
           THEN NoneVal
           ELSE [none |-> FALSE, symbol |-> Upper(symbol), interval |-> interval,
                 has_time_series |-> TRUE, time_series |-> response.time_series]

-----------------------------------------------------------------------------
(* DataTransformer.transform_intraday_data                                  *)

Stock(symbol) ==
    [symbol |-> symbol, company_name |-> <<symbol, " Stock">>,
     exchange |-> "NYSE", is_active |-> TRUE]

transform_intraday_data(raw_data) ==
    IF raw_data.none
    THEN NoneVal
    ELSE IF ~raw_data.has_time_series
    THEN NoneVal
    ELSE LET records == create_price_objects(raw_data.symbol,
                            raw_data.time_series, raw_data.interval)
         IN  IF records = <<>>
             THEN NoneVal
             ELSE [none |-> FALSE, malformed |-> FALSE,
                   stock |-> Stock(raw_data.symbol),
                   price_records |-> records,
                   metadata |-> [symbol |-> raw_data.symbol,
                                 interval |-> raw_data.interval,
                                 record_count |-> Len(records)]]

-----------------------------------------------------------------------------
(* DataLoader                                                               *)

JobLog(symbol, total_records, processed_records, status, error_message) ==
    [job_name |-> <<"intraday_etl_", symbol>>, status |-> status,
     records_processed |-> processed_records, total_records |-> total_records,
     error_message |-> error_message]

\* _log_etl_job without its try/except: an exception of the INSERT leaves it.
log_etl_job_unguarded(s, symbol, total_records, processed_records, status, error_message) ==
    IF Raises(s)
    THEN [s |-> [Issue(s) EXCEPT !.logfail = TRUE], exc |-> TRUE]
    ELSE [s |-> [Issue(s) EXCEPT !.logs =
                    Append(@, JobLog(symbol, total_records, processed_records,
                                     status, error_message))],
          exc |-> FALSE]

\* _log_etl_job that keeps one row for a job name: the row that is there is
\* written over.
log_etl_job_latest_only(s, symbol, total_records, processed_records, status, error_message) ==
    IF Raises(s)
    THEN [s |-> [Issue(s) EXCEPT !.logfail = TRUE], exc |-> FALSE]
    ELSE LET row == JobLog(symbol, total_records, processed_records, status,
                           error_message)
         IN  [s |-> [Issue(s) EXCEPT !.logs =
                        IF \E k \in 1..Len(@) : @[k].job_name = row.job_name
                        THEN [k \in 1..Len(@) |->
                                IF @[k].job_name = row.job_name
                                THEN row ELSE @[k]]
                        ELSE Append(@, row)],
              exc |-> FALSE]

\* _log_etl_job (the loader's and the pipeline's are the same code): one INSERT
\* into etl_job_logs; an exception of the INSERT is caught and logged.
log_etl_job(s, symbol, total_records, processed_records, status, error_message) ==
    IF Raises(s)
    THEN [s |-> [Issue(s) EXCEPT !.logfail = TRUE], exc |-> FALSE]
    ELSE [s |-> [Issue(s) EXCEPT !.logs =
                    Append(@, JobLog(symbol, total_records, processed_records,
                                     status, error_message))],
          exc |-> FALSE]

\* load_stock that writes the stock's attributes over the row that is there.
load_stock_upsert(s, stock) ==
    [s |-> [Issue(s) EXCEPT !.stocks =
               {row \in @ : row.symbol # stock.symbol} \cup
               {[symbol |-> stock.symbol,
                 company_name |-> stock.company_name]}],
     ret |-> TRUE]

\* load_stock: True when the symbol is there already or was inserted, False on
\* any exception.  The INSERT names stock.name, which the transformer's Stock
\* (symbol, company_name, exchange) does not carry, and a column the stocks
\* table of DatabaseManager.create_tables does not have: with either, or with
\* a failed statement, the except branch returns False.
load_stock(s, stock) ==
    IF Raises(s)
    THEN [s |-> Issue(s), ret |-> FALSE]
    ELSE LET s1 == Issue(s) IN
         IF \E row \in s1.stocks : row.symbol = stock.symbol
         THEN [s |-> s1, ret |-> TRUE]
         ELSE IF Raises(s1)
              THEN [s |-> Issue(s1), ret |-> FALSE]
              ELSE [s |-> [Issue(s1) EXCEPT !.stocks = @ \cup
                             {[symbol |-> stock.symbol,
                               company_name |-> stock.company_name]}],
                    ret |-> TRUE]

SameKey(row, rec) ==
    /\ row.stock_symbol = rec.stock_symbol
    /\ row.timestamp = rec.timestamp
    /\ row.interval = rec.interval

\* DECIMAL(10,4) holds NaN and every value below 10^6 in magnitude.
DecimalFits(rec) ==
    \A p \in {rec.open_price, rec.high_price, rec.low_price, rec.close_price} :
        p.nan \/ (p.n < DecimalLimit /\ p.n > -DecimalLimit)

\* The UPDATE of _load_single_price_record: the five numeric fields of every
\* row with the record's key.
UpdateRows(rows, rec) ==
    [i \in DOMAIN rows |->
        IF SameKey(rows[i], rec)
        THEN [rows[i] EXCEPT !.open_price = rec.open_price,
                             !.high_price = rec.high_price,
                             !.low_price = rec.low_price,
                             !.close_price = rec.close_price,
                             !.volume = rec.volume]
        ELSE rows[i]]

\* _load_single_price_record without the branch on the existence check: the
\* SELECT is made and the record is always INSERTed.
load_single_price_record_insert_only(s, rec) ==
    IF Raises(s)
    THEN [s |-> Issue(s), ret |-> FALSE]
    ELSE LET s1 == Issue(s) IN
         IF \/ Raises(s1)
            \/ ~DecimalFits(rec)
            \/ ~(\E row \in s1.stocks : row.symbol = rec.stock_symbol)
         THEN [s |-> Issue(s1), ret |-> FALSE]
         ELSE [s |-> [Issue(s1) EXCEPT !.prices = Append(@, rec),
                                       !.written = @ + 1],
               ret |-> TRUE]

\* _load_single_price_record: SELECT by (stock_symbol, timestamp, interval),
\* then UPDATE or INSERT.  The INSERT needs the stock row (foreign key).
load_single_price_record(s, rec) ==
    IF Raises(s)
    THEN [s |-> Issue(s), ret |-> FALSE]
    ELSE LET s1 == Issue(s) IN
         IF \E i \in DOMAIN s1.prices : SameKey(s1.prices[i], rec)
         THEN IF Raises(s1) \/ ~DecimalFits(rec)
              THEN [s |-> Issue(s1), ret |-> FALSE]
              ELSE [s |-> [Issue(s1) EXCEPT !.prices = UpdateRows(@, rec),
                                            !.written = @ + 1],
                    ret |-> TRUE]
         ELSE IF \/ Raises(s1)
                 \/ ~DecimalFits(rec)
                 \/ ~(\E row \in s1.stocks : row.symbol = rec.stock_symbol)
              THEN [s |-> Issue(s1), ret |-> FALSE]
              ELSE [s |-> [Issue(s1) EXCEPT !.prices = Append(@, rec),
                                            !.written = @ + 1],
                    ret |-> TRUE]

\* The loop of load_intraday_prices leaving at the first record that fails.
RECURSIVE load_each_until_failure(_, _)
load_each_until_failure(s, records) ==
    IF records = <<>>
    THEN [s |-> s, ret |-> 0, each |-> <<>>]
    ELSE LET r == load_single_price_record(s, Head(records)) IN
         IF ~r.ret
         THEN [s |-> r.s, ret |-> 0, each |-> <<FALSE>>]
         ELSE LET rest == load_each_until_failure(r.s, Tail(records))
              IN  [s |-> rest.s, ret |-> 1 + rest.ret,
                   each |-> <<TRUE>> \o rest.each]

\* The loop of load_intraday_prices: loaded_count over the records in order.
\* each: what _load_single_price_record returned for each record.
RECURSIVE load_each(_, _)
load_each(s, records) ==
    IF records = <<>>
    THEN [s |-> s, ret |-> 0, each |-> <<>>]
    ELSE LET r == load_single_price_record(s, Head(records))
             rest == load_each(r.s, Tail(records))
         IN  [s |-> rest.s, ret |-> (IF r.ret THEN 1 ELSE 0) + rest.ret,
              each |-> <<r.ret>> \o rest.each]

load_intraday_prices(s, symbol, records) ==
    IF records = <<>>
    THEN [s |-> s, ret |-> 0, each |-> <<>>]
    ELSE load_each(s, records)

LoadResult(success, symbol, error, prices_loaded, total) ==
    [success |-> success, symbol |-> symbol, error |-> error,
     prices_loaded |-> prices_loaded, total_price_records |-> total]

\* load_transformed_data.  A transformed_data without its 'price_records' key
\* (malformed) raises KeyError inside the try.
load_transformed_data(s, transformed_data) ==
    IF transformed_data.none
    THEN [s |-> s, ret |-> LoadResult(FALSE, "", "No transformed data", 0, 0)]
    ELSE LET symbol == transformed_data.metadata.symbol IN
         IF transformed_data.malformed
         THEN LET lg == log_etl_job(s, symbol, 0, 0, "FAILED", "KeyError")
              IN  [s |-> lg.s,
                   ret |-> LoadResult(FALSE, symbol, "KeyError", 0, 0)]
         ELSE LET st == load_stock(s, transformed_data.stock) IN
              IF ~st.ret
              THEN [s |-> st.s,
                    ret |-> LoadResult(FALSE, symbol,
                                "Failed to load stock information", 0, 0)]
              ELSE LET records == transformed_data.price_records
                       pr == load_intraday_prices(st.s, symbol, records)
                       lg == log_etl_job(pr.s, symbol, Len(records), pr.ret,
                                         "SUCCESS", "")
                   IN  [s |-> lg.s,
                        ret |-> LoadResult(TRUE, symbol, "", pr.ret,
                                           Len(records))]

-----------------------------------------------------------------------------
(* ETLService                                                               *)

\* What a process_stock_intraday call gives: the store after it, the value
\* returned (exc: an exception left the function instead), the stages it
\* invoked, in order, and the stage that gave a non-success result.
Returned(s, ret, exc, stages, failed) ==
    [s |-> s, ret |-> ret, exc |-> exc, stages |-> stages, failed |-> failed]

\* The except branch of process_stock_intraday: log FAILED with str(e), return
\* 0.  An exception of _log_etl_job would leave the function.
pipeline_failed(s, symbol, error, stages, failed) ==
    LET lg == log_etl_job(s, symbol, 0, 0, "FAILED", error)
    IN  Returned(lg.s, 0, lg.exc, stages, failed)

\* The early return after a stage that gave nothing: log FAILED with the
\* stage's message, return 0; an exception of the log call is caught by the
\* except branch.
pipeline_stage_failed(s, symbol, error, stages, failed) ==
    LET lg == log_etl_job(s, symbol, 0, 0, "FAILED", error)
    IN  IF lg.exc
        THEN pipeline_failed(lg.s, symbol, "log failed", stages, failed)
        ELSE Returned(lg.s, 0, FALSE, stages, failed)

\* process_stock_intraday.  pool_init_ok: whether init_connection_pool, called
\* when the pool is not initialised, succeeds; response: the provider's answer.
process_stock_intraday(s, symbol, interval, pool_init_ok, response) ==
    IF ~s.pool /\ ~pool_init_ok
    THEN pipeline_failed(s, symbol, "connection failed", <<>>, "connection")
    ELSE LET s0 == [s EXCEPT !.pool = TRUE]
             raw_data == extract_intraday_data(symbol, interval, response)
         IN
         IF raw_data.none
         THEN pipeline_stage_failed(s0, symbol, "Extraction failed",
                                    <<"extract">>, "extract")
         ELSE LET transformed_data == transform_intraday_data(raw_data) IN
              IF transformed_data.none
              THEN pipeline_stage_failed(s0, symbol, "Transformation failed",
                                         <<"extract", "transform">>,
                                         "transform")
              ELSE LET ld == load_transformed_data(s0, transformed_data)
                       stages == <<"extract", "transform", "load">>
                   IN  IF ~ld.ret.success
                       THEN Returned(ld.s, 0, FALSE, stages, "load")
                       ELSE Returned(ld.s, ld.ret.prices_loaded, FALSE, stages,
                                     "none")

-----------------------------------------------------------------------------
(* MarketSchedule and the market-hours questions of MarketScheduler.  A     *)
(* datetime is a count of days (day 0 is a Monday) with hour, minute and    *)
(* second.                                                                  *)

MondayToFriday == {0, 1, 2, 3, 4}

\* The dataclass with its default hours.
MarketSchedule(trading_days) ==
    [open_hour |-> 9, close_hour |-> 16, pre_market_start |-> 4,
     after_hours_end |-> 20, trading_days |-> trading_days]

\* The dataclass constructed with hours of the caller's: pre_market_start,
\* open_hour, close_hour and after_hours_end, in this order.
MarketScheduleAt(hours, trading_days) ==
    [open_hour |-> hours[2], close_hour |-> hours[3],
     pre_market_start |-> hours[1], after_hours_end |-> hours[4],
     trading_days |-> trading_days]

datetime(day, hour, minute, second) ==
    [day |-> day, hour |-> hour, minute |-> minute, second |-> second]

weekday(t) == t.day % 7

\* a < b on datetimes.
Earlier(a, b) ==
    \/ a.day < b.day
    \/ a.day = b.day /\ a.hour < b.hour
    \/ a.day = b.day /\ a.hour = b.hour /\ a.minute < b.minute
    \/ a.day = b.day /\ a.hour = b.hour /\ a.minute = b.minute
          /\ a.second < b.second

\* is_market_open without the test of the trading day.
is_market_open_any_day(schedule, t) ==
    schedule.open_hour <= t.hour /\ t.hour < schedule.close_hour

is_market_open(schedule, t) ==
    IF weekday(t) \notin schedule.trading_days THEN FALSE
    ELSE schedule.open_hour <= t.hour /\ t.hour < schedule.close_hour

is_pre_market(schedule, t) ==
    IF weekday(t) \notin schedule.trading_days THEN FALSE
    ELSE schedule.pre_market_start <= t.hour /\ t.hour < schedule.open_hour

\* An after-hours window that begins when the market opens.
is_after_hours_from_open(schedule, t) ==
    IF weekday(t) \notin schedule.trading_days THEN FALSE
    ELSE schedule.open_hour <= t.hour /\ t.hour < schedule.after_hours_end

is_after_hours(schedule, t) ==
    IF weekday(t) \notin schedule.trading_days THEN FALSE
    ELSE schedule.close_hour <= t.hour /\ t.hour < schedule.after_hours_end

\* The search for the next trading day that stops at tomorrow.
next_trading_day_tomorrow(schedule, day) == day + 1

\* The search for the next trading day that goes on two days at a time.
RECURSIVE next_trading_day_every_other_day(_, _)
next_trading_day_every_other_day(schedule, day) ==
    IF (day + 2) % 7 \in schedule.trading_days THEN day + 2
    ELSE next_trading_day_every_other_day(schedule, day + 2)

\* The while loop of get_next_market_open and get_next_market_close: a day
\* is added until the weekday is a trading day.
RECURSIVE next_trading_day(_, _)
next_trading_day(schedule, day) ==
    IF (day + 1) % 7 \in schedule.trading_days THEN day + 1
    ELSE next_trading_day(schedule, day + 1)

\* The body the two functions share, for the hour they aim at.
next_at_hour(schedule, t, hour) ==
    LET today == datetime(t.day, hour, 0, 0) IN
    IF weekday(t) \in schedule.trading_days /\ Earlier(t, today)
    THEN today
    ELSE datetime(next_trading_day(schedule, t.day), hour, 0, 0)

\* A next open that is today's open also at the instant of the open.
get_next_market_open_or_now(schedule, t) ==
    IF weekday(t) \in schedule.trading_days
          /\ t = datetime(t.day, schedule.open_hour, 0, 0)
    THEN t
    ELSE next_at_hour(schedule, t, schedule.open_hour)

get_next_market_open(schedule, t) ==
    next_at_hour(schedule, t, schedule.open_hour)

get_next_market_close(schedule, t) ==
    next_at_hour(schedule, t, schedule.close_hour)

-----------------------------------------------------------------------------
(* The scheduled jobs of MarketScheduler.  scheduled_jobs is a dict keyed   *)
(* by job name: here the sequence of its values in insertion order.  A      *)
(* callback is "none" (None), "returns" or "raises".                        *)

JobConfig(job_name, job_symbols, interval_minutes, callback, type, utcnow) ==
    [name |-> job_name, symbols |-> job_symbols,
     interval_minutes |-> interval_minutes, callback |-> callback,
     type |-> type, created_at |-> utcnow]

\* The keys of the dict.
JobKeys(jobs) == {jobs[i].name : i \in DOMAIN jobs}

\* The body the three schedule functions share, for the type they store.
schedule_job(jobs, type, job_name, job_symbols, interval_minutes, callback, utcnow) ==
    IF job_name \in JobKeys(jobs)
    THEN [jobs |-> jobs, ret |-> FALSE]
    ELSE [jobs |-> Append(jobs, JobConfig(job_name, job_symbols, interval_minutes,
                                          callback, type, utcnow)),
          ret |-> TRUE]

schedule_market_hours_job(jobs, job_name, job_symbols, interval_minutes, callback, utcnow) ==
    schedule_job(jobs, "market_hours", job_name, job_symbols, interval_minutes,
                 callback, utcnow)

\* schedule_pre_market_job that stores under the name whatever is there.
schedule_pre_market_job_overwrite(jobs, job_name, job_symbols, interval_minutes, callback, utcnow) ==
    LET config == JobConfig(job_name, job_symbols, interval_minutes, callback,
                            "pre_market", utcnow)
    IN  [jobs |-> IF job_name \in JobKeys(jobs)
                  THEN [i \in DOMAIN jobs |->
                           IF jobs[i].name = job_name THEN config ELSE jobs[i]]
                  ELSE Append(jobs, config),
         ret |-> TRUE]

schedule_pre_market_job(jobs, job_name, job_symbols, interval_minutes, callback, utcnow) ==
    schedule_job(jobs, "pre_market", job_name, job_symbols, interval_minutes,
                 callback, utcnow)

schedule_after_hours_job(jobs, job_name, job_symbols, interval_minutes, callback, utcnow) ==
    schedule_job(jobs, "after_hours", job_name, job_symbols, interval_minutes,
                 callback, utcnow)

\* remove_scheduled_job that empties the dict.
remove_scheduled_job_clear(jobs, job_name) ==
    IF job_name \in JobKeys(jobs)
    THEN [jobs |-> <<>>, ret |-> TRUE]
    ELSE [jobs |-> jobs, ret |-> FALSE]

remove_scheduled_job(jobs, job_name) ==
    IF job_name \in JobKeys(jobs)
    THEN [jobs |-> SelectSeq(jobs, LAMBDA job : job.name # job_name),
          ret |-> TRUE]
    ELSE [jobs |-> jobs, ret |-> FALSE]

\* should_run decided by is_market_open whatever the type.
should_run_market_hours(schedule, job_config, t) == is_market_open(schedule, t)

\* should_run of run_scheduled_jobs for one job at its current_time.
should_run(schedule, job_config, t) ==
    CASE job_config.type = "market_hours" -> is_market_open(schedule, t)
      [] job_config.type = "pre_market" -> is_pre_market(schedule, t)
      [] job_config.type = "after_hours" -> is_after_hours(schedule, t)
      [] OTHER -> FALSE

\* One entry of results, with whether the pipeline and the callback were
\* called for it.
JobResult(job_name, status, invoked, called_back) ==
    [job_name |-> job_name, status |-> status, invoked |-> invoked,
     called_back |-> called_back]

\* The callback step with an exception of the callback reaching the outer
\* except clause.
run_callback_propagates(result, callback) ==
    IF callback = "raises"
    THEN [result EXCEPT !.status = "error", !.called_back = TRUE]
    ELSE [result EXCEPT !.called_back = callback # "none"]

\* The callback step: called when given, its exception caught and logged.
run_callback(result, callback) ==
    [result EXCEPT !.called_back = callback # "none"]

\* One pass of the loop of run_scheduled_jobs.  raises: the pipeline call
\* raises.
run_job(schedule, job_config, t, raises) ==
    IF ~should_run(schedule, job_config, t)
    THEN JobResult(job_config.name, "skipped", FALSE, FALSE)
    ELSE IF raises
    THEN JobResult(job_config.name, "error", TRUE, FALSE)
    ELSE run_callback(JobResult(job_config.name, "success", TRUE, FALSE),
                      job_config.callback)

\* run_scheduled_jobs: {} without jobs, else one entry per job in the order
\* of the dict.  times[i]: utcnow() of the i-th pass; faults: the passes
\* whose pipeline call raises.
run_scheduled_jobs(schedule, jobs, times, faults) ==
    [i \in DOMAIN jobs |-> run_job(schedule, jobs[i], times[i], i \in faults)]

\* The raw series the transform is run on: every entry shape, each position
\* with a timestamp string of its own (the series is a dict keyed by them).
Symbols == {"AAPL", "msft"}
Intervals == {"5min"}

ValidShape == [form |-> "%Y-%m-%d %H:%M:%S", open |-> FNum(1), high |-> FNum(2),
               low |-> FNum(1), close |-> FNum(2), volume |-> FNum(0)]

RawShapes ==
    {[ValidShape EXCEPT !.open = o, !.high = h, !.low = l, !.close = c] :
        o \in {FNum(1), FNum(2)}, h \in {FNum(1), FNum(2)},
        l \in {FNum(1), FNum(2)}, c \in {FNum(1), FNum(2)}}
    \cup {[ValidShape EXCEPT !.form = f] : f \in TsForms}
    \cup {[ValidShape EXCEPT !.open = o] :
             o \in {FNum(0), FNum(-1), FNan, FText, FMissing}}
    \cup {[ValidShape EXCEPT !.high = h] :
             h \in {FNum(PriceCeiling), FNum(PriceCeiling + 1), FNan, FText}}
    \cup {[ValidShape EXCEPT !.low = l] : l \in {FNum(0), FNan}}
    \cup {[ValidShape EXCEPT !.close = c] : c \in {FNan, FMissing}}
    \cup {[ValidShape EXCEPT !.volume = v] :
             v \in {FNum(-1), FNum(7), FNan, FText, FMissing}}

RawEntry(shape, t) ==
    [ts |-> [t |-> t, form |-> shape.form], open |-> shape.open,
     high |-> shape.high, low |-> shape.low, close |-> shape.close,
     volume |-> shape.volume]

RawSeries(n) ==
    {[i \in 1..n |-> RawEntry(shapes[i], i)] : shapes \in [1..n -> RawShapes]}


XfIdle == time_series = <<>> /\ price_records = <<>> /\ xf_pc = "idle"


-----------------------------------------------------------------------------
(* Specification of the pipeline: process_multiple_stocks_intraday runs     *)
(* process_stock_intraday on each symbol of its list against the store.     *)

InvalidShape == [ValidShape EXCEPT !.high = FNum(1)]
PipeShapes == {ValidShape, InvalidShape}

PipeSeries ==
    UNION {{[i \in 1..n |-> RawEntry(shapes[i], i)] :
              shapes \in [1..n -> PipeShapes]} : n \in 0..MaxResponseSeries}

Responses ==
    {[kind |-> k, time_series |-> <<>>] :
        k \in {"RequestException", "Error Message", "Note", "no Time Series"}}
    \cup {[kind |-> "Time Series", time_series |-> ts] : ts \in PipeSeries}

\* The failures of the store during a handler call that issues up to n
\* statements: none, one statement alone (a violated constraint, a timeout),
\* or every statement from some statement on (the connection is lost).
FaultPlans(n) == {{}} \cup {{k} : k \in 1..n} \cup {k..n : k \in 1..n}

SymbolLists == UNION {[1..n -> Symbols] : n \in 1..MaxSymbols}

NoResults == [x \in {} |-> 0]

DbIdle ==
    /\ stocks = {}
    /\ stock_prices_intraday = <<>>
    /\ etl_job_logs = <<>>
    /\ connection_pool = FALSE

RunIdle ==
    /\ symbols = <<>>
    /\ idx = 0
    /\ results = NoResults
    /\ history = <<>>
    /\ last = NoneVal

LoadIdle == loaded = NoneVal /\ loads = 0

\* DataExtractor.__init__: last_call_time = 0.
RateIdle ==
    /\ clock = 0
    /\ last_call_time = 0
    /\ acquired = <<>>
    /\ limited = NoneVal

\* DataStreamingService.__init__.
StreamIdle ==
    /\ is_running = FALSE
    /\ stop_event = FALSE
    /\ streaming_thread = 0
    /\ workers = <<>>
    /\ caller_pc = "idle"
    /\ started = NoneVal
    /\ stopped = NoneVal

\* MarketScheduler.__init__ with the default MarketSchedule.
SchedIdle ==
    /\ market_schedule = MarketSchedule(MondayToFriday)
    /\ scheduled_jobs = <<>>
    /\ asked_at = NoneVal
    /\ answer = NoneVal
    /\ sched_call = NoneVal

\* No ETLRunner constructed: the signal dispositions of a fresh interpreter.
ProcIdle ==
    /\ signal_handler = "default"
    /\ runner_is_running = FALSE
    /\ exited = FALSE
    /\ signalled = NoneVal

\* The ETLService instances of the process started through trigger_pipeline,
\* each with a DataExtractor of its own: the runner's, the streaming
\* service's and the polling manager's.
Extractors == {"runner", "streaming", "polling"}

\* DataExtractor.__init__ of each: last_call_time = 0; no thread in
\* _rate_limit.
CallIdle ==
    /\ extractors = [e \in Extractors |-> 0]
    /\ callers = <<>>
    /\ admitted = <<>>

\* SimpleConnectionPool(minconn=1, maxconn=MaxConn): the connections of the
\* pool.
Conns == 1..MaxConn

\* Every connection in the pool (holder 0); no thread in the pipeline.
PoolIdle ==
    /\ borrowed = [c \in Conns |-> 0]
    /\ pipelines = <<>>

\* No loader at work.
RaceIdle == loaders = <<>>

\* Stock rows that the facade's create_stock wrote before the pipeline runs.
FacadeStocks ==
    {[symbol |-> Upper(sym), company_name |-> <<Upper(sym), " Inc.">>] :
        sym \in Symbols}

InitTransform ==
    /\ \E n \in 0..MaxSeries : time_series \in RawSeries(n)
    /\ price_records = <<>>
    /\ xf_pc = "ready"
    /\ DbIdle
    /\ RunIdle
    /\ LoadIdle
    /\ RateIdle
    /\ StreamIdle
    /\ SchedIdle
    /\ ProcIdle
    /\ CallIdle
    /\ PoolIdle
    /\ RaceIdle

\* One call of _create_price_objects(symbol, time_series, interval).
CreatePriceObjects ==
    /\ xf_pc = "ready"
    /\ \E symbol \in Symbols, interval \in Intervals :
         price_records' = create_price_objects(Upper(symbol), time_series, interval)
    /\ xf_pc' = "done"
    /\ UNCHANGED <<time_series, nonXfVars>>

NextTransform == CreatePriceObjects

SpecTransform == InitTransform /\ [][NextTransform]_vars

InitPipeline ==
    /\ stocks \in SUBSET FacadeStocks
    /\ stock_prices_intraday = <<>>
    /\ etl_job_logs = <<>>
    /\ connection_pool = FALSE
    /\ RunIdle
    /\ LoadIdle
    /\ RateIdle
    /\ StreamIdle
    /\ SchedIdle
    /\ XfIdle
    /\ ProcIdle
    /\ CallIdle
    /\ PoolIdle
    /\ RaceIdle

\* A call of process_multiple_stocks_intraday(symbols) begins: results = {}.
BeginRun ==
    /\ symbols = <<>>
    /\ \E list \in SymbolLists : symbols' = list
    /\ idx' = 0
    /\ results' = NoResults
    /\ history' = <<>>
    /\ last' = NoneVal
    /\ UNCHANGED <<dbVars, nonRunVars>>

\* Network requests of one extract_intraday_data call: _rate_limit() once, then
\* the single session.get; every error branch returns None without a retry.
extract_requests == 1

\* Network requests of one process_stock_intraday call: the extractor is called
\* only after _ensure_db_connection() has returned.
process_stock_requests(r) ==
    IF \E k \in 1..Len(r.stages) : r.stages[k] = "extract"
    THEN extract_requests ELSE 0

\* What the provider answered to the request of a process_stock_intraday
\* call: no request, an error of any kind, a time series without entries, or
\* one with entries.
response_seen(r, response) ==
    IF process_stock_requests(r) = 0 THEN "no request"
    ELSE IF response.kind # "Time Series" THEN "error"
    ELSE IF response.time_series = <<>> THEN "empty series"
    ELSE "entries"

\* What the loop of process_multiple_stocks_intraday stores for a symbol: the
\* call's return value, or 0 when the call raised.
results_entry(r) == IF r.exc THEN 0 ELSE r.ret

\* A loop that gives up the list at the first symbol that loaded nothing.
loop_next_abort(i, n, r) == IF r.ret = 0 THEN n ELSE i + 1

\* The loop goes on to the next symbol whatever the call gave.
loop_next(i, n, r) == i + 1

\* What the history keeps of the last process_stock_intraday call: its
\* argument, what it returned, the stages it invoked and the one that failed,
\* whether a job-log INSERT raised, and the job-log rows it appended.
CallRecord(symbol, s, r) ==
    [none |-> FALSE, symbol |-> symbol,
     stages |-> r.stages, failed |-> r.failed, ret |-> r.ret, exc |-> r.exc,
     logfail |-> r.s.logfail,
     new_logs |-> SubSeq(r.s.logs, Len(s.logs) + 1, Len(r.s.logs))]

\* One iteration of the loop: process_stock_intraday(symbol, "5min") and the
\* assignment to results[symbol].
ProcessNext ==
    /\ idx < Len(symbols)
    /\ \E pool_init_ok \in (IF connection_pool THEN {TRUE} ELSE BOOLEAN),
          response \in Responses :
         \E symbol \in {symbols[idx + 1]} :
         \E quiet \in {Store(stocks, stock_prices_intraday, etl_job_logs,
                            connection_pool, {})} :
         \E faults \in FaultPlans(process_stock_intraday(quiet, symbol, "5min",
                                        pool_init_ok, response).s.n) :
         \E s \in {[quiet EXCEPT !.faults = faults]} :
         \E r \in {process_stock_intraday(s, symbol, "5min", pool_init_ok,
                                         response)} :
             /\ stocks' = r.s.stocks
             /\ stock_prices_intraday' = r.s.prices
             /\ etl_job_logs' = r.s.logs
             /\ connection_pool' = r.s.pool
             /\ results' = (symbol :> results_entry(r)) @@ results
             /\ idx' = loop_next(idx, Len(symbols), r)
             /\ history' = Append(history,
                    [symbol |-> symbol,
                     extracted |->
                        ~extract_intraday_data(symbol, "5min", response).none,
                     requests |-> process_stock_requests(r),
                     written |-> r.s.written])
             /\ last' = CallRecord(symbol, s, r)
                        @@ [response |-> response_seen(r, response)]
    /\ UNCHANGED <<symbols, nonRunVars>>

Next == BeginRun \/ ProcessNext

Spec == InitPipeline /\ [][Next]_vars

-----------------------------------------------------------------------------
(* Specification of the two ways to run a symbol list: run_etl_pipeline     *)
(* (extract all, transform all, load all) and                               *)
(* process_multiple_stocks_intraday (one symbol after the other), each as   *)
(* one whole call against a store that raises nothing once connected.      *)

\* The whole loop of process_multiple_stocks_intraday from position k on.
RECURSIVE process_symbols(_, _, _, _, _, _)
process_symbols(s, list, interval, pool_init_ok, responses, k) ==
    IF k > Len(list)
    THEN [s |-> s, results |-> NoResults]
    ELSE LET r == process_stock_intraday(s, list[k], interval, pool_init_ok,
                                         responses[k])
             rest == process_symbols(r.s, list, interval, pool_init_ok,
                                     responses, k + 1)
         IN  [s |-> rest.s,
              results |-> rest.results @@ (list[k] :> results_entry(r))]

process_multiple_stocks_intraday(s, list, interval, pool_init_ok, responses) ==
    process_symbols(s, list, interval, pool_init_ok, responses, 1)

\* The keys of a dict filled by a loop over list, in insertion order.
RECURSIVE dict_keys(_)
dict_keys(list) ==
    IF list = <<>>
    THEN <<>>
    ELSE LET front == dict_keys(SubSeq(list, 1, Len(list) - 1))
             x == list[Len(list)]
         IN  IF \E k \in 1..Len(front) : front[k] = x
             THEN front
             ELSE Append(front, x)

\* extract_multiple_stocks: results[symbol] = data for each listed symbol, a
\* later listing of the same symbol replacing the earlier value.
extract_multiple_stocks(list, interval, responses) ==
    [x \in {list[k] : k \in 1..Len(list)} |->
        LET k == CHOOSE j \in 1..Len(list) :
                    /\ list[j] = x
                    /\ \A i \in (j + 1)..Len(list) : list[i] # x
        IN  extract_intraday_data(x, interval, responses[k])]

\* transform_multiple_stocks: None stays None.
transform_multiple_stocks(raw_data_dict) ==
    [x \in DOMAIN raw_data_dict |->
        IF raw_data_dict[x].none
        THEN NoneVal
        ELSE transform_intraday_data(raw_data_dict[x])]

\* load_multiple_stocks from key k on: a symbol without transformed data is
\* skipped with a failure result and no statement.
RECURSIVE load_multiple_stocks(_, _, _, _)
load_multiple_stocks(s, keys, transformed_data_dict, k) ==
    IF k > Len(keys)
    THEN [s |-> s, loading_results |-> NoResults]
    ELSE LET x == keys[k]
             ld == IF transformed_data_dict[x].none
                   THEN [s |-> s,
                         ret |-> LoadResult(FALSE, x,
                                    "No transformed data available", 0, 0)]
                   ELSE load_transformed_data(s, transformed_data_dict[x])
             rest == load_multiple_stocks(ld.s, keys, transformed_data_dict,
                                          k + 1)
         IN  [s |-> rest.s,
              loading_results |-> rest.loading_results @@ (x :> ld.ret)]

\* A call of a stage for a symbol.
StageCall(stage, symbol) == [stage |-> stage, symbol |-> symbol]

\* The calls a phase loop makes over the keys of its dict: one for every key
\* whose value is not None.
stage_calls(stage, keys, data_dict) ==
    SelectSeq([k \in 1..Len(keys) |-> StageCall(stage, keys[k])],
              LAMBDA c : ~data_dict[c.symbol].none)

\* The stage calls of a run that takes each listed symbol through the three
\* stages before the next symbol, from position k on.
RECURSIVE per_symbol_calls(_, _, _, _)
per_symbol_calls(list, interval, responses, k) ==
    IF k > Len(list)
    THEN <<>>
    ELSE LET raw == extract_intraday_data(list[k], interval, responses[k])
             transformed == IF raw.none THEN NoneVal
                            ELSE transform_intraday_data(raw)
         IN  <<StageCall("extract", list[k])>>
             \o (IF raw.none THEN <<>>
                 ELSE <<StageCall("transform", list[k])>>)
             \o (IF transformed.none THEN <<>>
                 ELSE <<StageCall("load", list[k])>>)
             \o per_symbol_calls(list, interval, responses, k + 1)

run_etl_calls_per_symbol(list, interval, responses) ==
    per_symbol_calls(list, interval, responses, 1)

\* The stage calls of run_etl_pipeline, in the order they are made:
\* extract_multiple_stocks calls the extractor for every listed symbol, then
\* transform_multiple_stocks and load_multiple_stocks go over the dict keys.
run_etl_calls(list, interval, responses) ==
    LET raw_data_dict == extract_multiple_stocks(list, interval, responses)
        transformed_data_dict == transform_multiple_stocks(raw_data_dict)
    IN  [k \in 1..Len(list) |-> StageCall("extract", list[k])]
        \o stage_calls("transform", dict_keys(list), raw_data_dict)
        \o stage_calls("load", dict_keys(list), transformed_data_dict)

\* run_etl_pipeline: _ensure_db_connection() outside any try, then the three
\* phases.  exc: the exception of init_connection_pool left the function.
run_etl_pipeline(s, list, interval, pool_init_ok, responses) ==
    IF ~s.pool /\ ~pool_init_ok
    THEN [s |-> s, exc |-> TRUE, loading_results |-> NoResults,
          calls |-> <<>>]
    ELSE LET s0 == [s EXCEPT !.pool = TRUE]
             raw_data_dict == extract_multiple_stocks(list, interval, responses)
             transformed_data_dict == transform_multiple_stocks(raw_data_dict)
             ld == load_multiple_stocks(s0, dict_keys(list),
                                        transformed_data_dict, 1)
         IN  [s |-> ld.s, exc |-> FALSE,
              loading_results |-> ld.loading_results,
              calls |-> run_etl_calls(list, interval, responses)]

\* The records loaded per symbol that a loading_results dict reports.
total_loaded(loading_results) ==
    [x \in DOMAIN loading_results |->
        IF loading_results[x].success
        THEN loading_results[x].prices_loaded ELSE 0]

\* What a whole run was called with, and what it gave.
RunRecord(op, s, list, pool_init_ok, responses, after, exc, counts) ==
    [none |-> FALSE, op |-> op, before |-> s, symbols |-> list,
     pool_init_ok |-> pool_init_ok, responses |-> responses, exc |-> exc,
     stocks |-> after.stocks, prices |-> after.prices,
     new_logs |-> SubSeq(after.logs, Len(s.logs) + 1, Len(after.logs)),
     counts |-> counts]

RunArguments ==
    UNION {{[list |-> list, responses |-> responses] :
              responses \in [1..Len(list) -> Responses]} :
           list \in SymbolLists}

RunEtlPipeline ==
    /\ last = NoneVal
    /\ \E a \in RunArguments, pool_init_ok \in BOOLEAN :
         \E s \in {Store(stocks, stock_prices_intraday, etl_job_logs,
                        connection_pool, {})} :
         \E r \in {run_etl_pipeline(s, a.list, "5min", pool_init_ok,
                                    a.responses)} :
             /\ stocks' = r.s.stocks
             /\ stock_prices_intraday' = r.s.prices
             /\ etl_job_logs' = r.s.logs
             /\ connection_pool' = r.s.pool
             /\ symbols' = a.list
             /\ idx' = IF r.exc THEN 0 ELSE Len(a.list)
             /\ results' = total_loaded(r.loading_results)
             /\ last' = RunRecord("run_etl_pipeline", s, a.list, pool_init_ok,
                                  a.responses, r.s, r.exc,
                                  total_loaded(r.loading_results))
                        @@ [calls |-> r.calls,
                            success |->
                               [x \in DOMAIN r.loading_results |->
                                   r.loading_results[x].success]]
    /\ UNCHANGED <<history, nonRunVars>>

ProcessMultipleStocksIntraday ==
    /\ last = NoneVal
    /\ \E a \in RunArguments, pool_init_ok \in BOOLEAN :
         \E s \in {Store(stocks, stock_prices_intraday, etl_job_logs,
                        connection_pool, {})} :
         \E r \in {process_multiple_stocks_intraday(s, a.list, "5min",
                        pool_init_ok, a.responses)} :
             /\ stocks' = r.s.stocks
             /\ stock_prices_intraday' = r.s.prices
             /\ etl_job_logs' = r.s.logs
             /\ connection_pool' = r.s.pool
             /\ symbols' = a.list
             /\ idx' = Len(a.list)
             /\ results' = r.results
             /\ last' = RunRecord("process_multiple_stocks_intraday", s, a.list,
                                  pool_init_ok, a.responses, r.s, FALSE,
                                  r.results)
    /\ UNCHANGED <<history, nonRunVars>>

NextEtl == RunEtlPipeline \/ ProcessMultipleStocksIntraday

SpecEtl == InitPipeline /\ [][NextEtl]_vars

-----------------------------------------------------------------------------
(* Specification of the loader called directly, one call after the other,   *)
(* against a store whose pool is initialised.                               *)

OtherShape == [ValidShape EXCEPT !.close = FNum(1), !.volume = FNum(7)]
LoadShapes == {ValidShape, OtherShape}

LoadSeries ==
    UNION {{[i \in 1..n |-> RawEntry(shapes[i], i)] :
              shapes \in [1..n -> LoadShapes]} : n \in 1..MaxResponseSeries}

\* The results of the transform that the loader is given.
TransformedResults ==
    {transform_intraday_data(
        extract_intraday_data(symbol, "5min",
            [kind |-> "Time Series", time_series |-> ts])) :
        symbol \in Symbols, ts \in LoadSeries}

LoadRecords ==
    UNION {{td.price_records[i] : i \in DOMAIN td.price_records} :
             td \in TransformedResults}

RecordLists == {<<>>} \cup {td.price_records : td \in TransformedResults}

\* The rows stored under the key of each of the records.
StoredUnder(rows, records) ==
    [i \in DOMAIN records |-> SelectSeq(rows, LAMBDA row : SameKey(row, records[i]))]

\* What the history keeps of a loader call: the operation and its records, the
\* rows stored under the records' keys before the call, the value returned
\* (ok: a True or success result; count: the loaded count), the writes to
\* stock_prices_intraday that were committed, the job-log rows appended and
\* whether a job-log INSERT raised.
LoadRecord(op, records, s, r, ok, count) ==
    [none |-> FALSE, op |-> op, records |-> records,
     replaced |-> StoredUnder(s.prices, records),
     ok |-> ok, count |-> count, written |-> r.s.written,
     logfail |-> r.s.logfail,
     new_logs |-> SubSeq(r.s.logs, Len(s.logs) + 1, Len(r.s.logs))]

InitLoad ==
    /\ stocks \in {{}, FacadeStocks}
    /\ stock_prices_intraday = <<>>
    /\ etl_job_logs = <<>>
    /\ connection_pool = TRUE
    /\ LoadIdle
    /\ RateIdle
    /\ StreamIdle
    /\ SchedIdle
    /\ RunIdle
    /\ XfIdle
    /\ ProcIdle
    /\ CallIdle
    /\ PoolIdle
    /\ RaceIdle

Commit(r) ==
    /\ stocks' = r.s.stocks
    /\ stock_prices_intraday' = r.s.prices
    /\ etl_job_logs' = r.s.logs
    /\ connection_pool' = r.s.pool
    /\ loads' = loads + 1
    /\ UNCHANGED nonLoadVars

\* One call of _load_single_price_record(price_record).
LoadSinglePriceRecord ==
    /\ loads < MaxLoads
    /\ \E rec \in LoadRecords, faults \in FaultPlans(2) :
         \E s \in {Store(stocks, stock_prices_intraday, etl_job_logs,
                        connection_pool, faults)} :
         \E r \in {load_single_price_record(s, rec)} :
             /\ Commit(r)
             /\ loaded' = LoadRecord("load_single_price_record", <<rec>>, s, r,
                                     r.ret, IF r.ret THEN 1 ELSE 0)

\* One call of load_intraday_prices(symbol, price_records).
LoadIntradayPrices ==
    /\ loads < MaxLoads
    /\ \E records \in RecordLists :
         \E symbol \in (IF records = <<>> THEN {Upper(sym) : sym \in Symbols}
                        ELSE {records[1].stock_symbol}) :
         \E faults \in FaultPlans(2 * Len(records)) :
         \E s \in {Store(stocks, stock_prices_intraday, etl_job_logs,
                        connection_pool, faults)} :
         \E r \in {load_intraday_prices(s, symbol, records)} :
             /\ Commit(r)
             /\ loaded' = LoadRecord("load_intraday_prices", records, s, r,
                                     TRUE, r.ret)

\* One call of load_transformed_data(transformed_data).
LoadTransformedData ==
    /\ loads < MaxLoads
    /\ \E transformed_data \in TransformedResults :
         \E quiet \in {Store(stocks, stock_prices_intraday, etl_job_logs,
                            connection_pool, {})} :
         \E faults \in FaultPlans(load_transformed_data(quiet, transformed_data).s.n) :
         \E s \in {[quiet EXCEPT !.faults = faults]} :
         \E r \in {load_transformed_data(s, transformed_data)} :
             /\ Commit(r)
             /\ loaded' = LoadRecord("load_transformed_data",
                                     transformed_data.price_records, s, r,
                                     r.ret.success, r.ret.prices_loaded)

NextLoad == LoadSinglePriceRecord \/ LoadIntradayPrices \/ LoadTransformedData

SpecLoad == InitLoad /\ [][NextLoad]_vars

-----------------------------------------------------------------------------
(* Specification of the stocks table under the loader: load_stock is called *)
(* directly and through load_transformed_data.                              *)

\* The Stock objects given to load_stock: the transformer's, and one with
\* another company name.
Stocks ==
    UNION {{Stock(Upper(sym)),
            [Stock(Upper(sym)) EXCEPT !.company_name = <<@[1], " Corp.">>]} :
           sym \in Symbols}

\* One call of load_stock(stock).
LoadStock ==
    /\ loads < MaxLoads
    /\ \E stock \in Stocks, faults \in FaultPlans(2) :
         \E s \in {Store(stocks, stock_prices_intraday, etl_job_logs,
                        connection_pool, faults)} :
         \E r \in {load_stock(s, stock)} :
             /\ Commit(r)
             /\ loaded' = LoadRecord("load_stock", <<>>, s, r, r.ret, 0) @@
                             [stock |-> stock,
                              was_present |-> \E row \in stocks :
                                                row.symbol = stock.symbol,
                              select_raised |-> Raises(s)]

NextStocks == LoadStock \/ LoadTransformedData

SpecStocks == InitLoad /\ [][NextStocks]_vars

-----------------------------------------------------------------------------
(* Specification of the loader given batches of several records, one call   *)
(* after the other.                                                         *)

BatchSeries ==
    UNION {{[i \in 1..n |-> RawEntry(shapes[i], i)] :
              shapes \in [1..n -> LoadShapes]} : n \in 1..MaxBatch}

\* The price_records lists of the transform for them, for one symbol.
Batches ==
    {transform_intraday_data(
        extract_intraday_data("AAPL", "5min",
            [kind |-> "Time Series", time_series |-> ts])).price_records :
        ts \in BatchSeries}

\* One call of load_intraday_prices(symbol, price_records) with a batch.
LoadBatch ==
    /\ loads < MaxLoads
    /\ \E records \in Batches, faults \in FaultPlans(2 * MaxBatch) :
         \E s \in {Store(stocks, stock_prices_intraday, etl_job_logs,
                        connection_pool, faults)} :
         \E r \in {load_intraday_prices(s, records[1].stock_symbol, records)} :
             /\ Commit(r)
             /\ loaded' = LoadRecord("load_intraday_prices", records, s, r,
                                     TRUE, r.ret) @@
                             [each |-> r.each, statements |-> r.s.n]

NextBatch == LoadBatch

SpecBatch == InitLoad /\ [][NextBatch]_vars

-----------------------------------------------------------------------------
(* Specification of the rate limiter: one caller calls _rate_limit again    *)
(* and again; the clock never goes back and a sleep lasts at least as long  *)
(* as asked.                                                                *)

\* The time from the return of one call (or the start) to the next call.
Gaps == 0..(rate_limit_delay + 1)

InitRate ==
    /\ clock \in {0, rate_limit_delay}
    /\ last_call_time = 0
    /\ acquired = <<>>
    /\ limited = NoneVal
    /\ DbIdle
    /\ RunIdle
    /\ XfIdle
    /\ LoadIdle
    /\ StreamIdle
    /\ SchedIdle
    /\ ProcIdle
    /\ CallIdle
    /\ PoolIdle
    /\ RaceIdle

\* One call of _rate_limit, from its first clock read to its return.
RateLimit ==
    /\ Len(acquired) < MaxCalls
    /\ \E gap \in Gaps, overslept \in 0..MaxLate, late \in 0..MaxLate :
         \E r \in {rate_limit(last_call_time, clock + gap, overslept, late)} :
             /\ clock' = r.done
             /\ last_call_time' = r.last_call_time
             /\ acquired' = Append(acquired, r.done)
             /\ limited' = [none |-> FALSE, current_time |-> r.current_time,
                            sleep_time |-> r.sleep_time, woke |-> r.woke]
    /\ UNCHANGED nonRateVars

NextRate == RateLimit

SpecRate == InitRate /\ [][NextRate]_vars

-----------------------------------------------------------------------------
(* Specification of _rate_limit called by threads side by side.  Each       *)
(* thread calls extract_intraday_data once through one of the ETLService    *)
(* instances of the process; _rate_limit is taken statement by statement,   *)
(* and the clock goes on between the statements.                            *)

\* A thread about to call _rate_limit of an extractor.
Caller(extractor) ==
    [extractor |-> extractor, pc |-> "read", current_time |-> 0,
     seen |-> 0, wake_at |-> 0, stamped |-> 0]

\* current_time = time.time(); time_since_last_call = current_time -
\* self.last_call_time; the test of the if.
rate_limit_read(me, last_call, now) ==
    LET time_since_last_call == now - last_call IN
    IF time_since_last_call < rate_limit_delay
    THEN [me EXCEPT !.pc = "sleep", !.current_time = now, !.seen = last_call,
                    !.wake_at = now + (rate_limit_delay - time_since_last_call)]
    ELSE [me EXCEPT !.pc = "stamp", !.current_time = now, !.seen = last_call,
                    !.wake_at = now]

\* time.sleep(sleep_time) has returned.
rate_limit_woke(me) == [me EXCEPT !.pc = "stamp"]

\* self.last_call_time = time.time().
rate_limit_stamp(me, now) == [me EXCEPT !.pc = "request", !.stamped = now]

\* session.get: the request goes out.
request_sent(me, now) ==
    [extractor |-> me.extractor, time |-> now, seen |-> me.seen,
     stamped |-> me.stamped]

InitCallers ==
    /\ clock = rate_limit_delay
    /\ last_call_time = 0
    /\ acquired = <<>>
    /\ limited = NoneVal
    /\ extractors = [e \in Extractors |-> 0]
    /\ \E n \in 1..MaxCallers :
         callers \in {[k \in 1..n |-> Caller(of[k])] :
                        of \in [1..n -> Extractors]}
    /\ admitted = <<>>
    /\ DbIdle
    /\ RunIdle
    /\ XfIdle
    /\ LoadIdle
    /\ StreamIdle
    /\ SchedIdle
    /\ ProcIdle
    /\ PoolIdle
    /\ RaceIdle

\* What no step of a thread in _rate_limit touches.
nonCallVars == <<last_call_time, acquired, limited, xfVars, dbVars, runVars,
                 loadVars, streamVars, schedVars, procVars, poolVars,
                 raceVars>>

CallerRead(c) ==
    /\ callers[c].pc = "read"
    /\ callers' = [callers EXCEPT
                      ![c] = rate_limit_read(@, extractors[@.extractor], clock)]
    /\ UNCHANGED <<extractors, admitted, clock, nonCallVars>>

CallerWake(c) ==
    /\ callers[c].pc = "sleep"
    /\ clock >= callers[c].wake_at
    /\ callers' = [callers EXCEPT ![c] = rate_limit_woke(@)]
    /\ UNCHANGED <<extractors, admitted, clock, nonCallVars>>

CallerStamp(c) ==
    /\ callers[c].pc = "stamp"
    /\ callers' = [callers EXCEPT ![c] = rate_limit_stamp(@, clock)]
    /\ extractors' = [extractors EXCEPT ![callers[c].extractor] = clock]
    /\ UNCHANGED <<admitted, clock, nonCallVars>>

CallerRequest(c) ==
    /\ callers[c].pc = "request"
    /\ admitted' = Append(admitted, request_sent(callers[c], clock))
    /\ callers' = [callers EXCEPT ![c].pc = "done"]
    /\ UNCHANGED <<extractors, clock, nonCallVars>>

\* A second goes by (MaxElapsed seconds are counted one by one).
Tick ==
    /\ clock < rate_limit_delay + MaxElapsed
    /\ clock' = clock + 1
    /\ UNCHANGED <<extractors, callers, admitted, nonCallVars>>

\* Time goes by until the sleep of a thread is over.
SleepOver ==
    /\ \E c \in DOMAIN callers :
         /\ callers[c].pc = "sleep"
         /\ callers[c].wake_at > clock
         /\ clock' = callers[c].wake_at
    /\ UNCHANGED <<extractors, callers, admitted, nonCallVars>>

CallerStep ==
    \E c \in DOMAIN callers :
        \/ CallerRead(c)
        \/ CallerWake(c)
        \/ CallerStamp(c)
        \/ CallerRequest(c)

NextCallers == CallerStep \/ Tick \/ SleepOver

SpecCallers == InitCallers /\ [][NextCallers]_vars

-----------------------------------------------------------------------------
(* DataStreamingService.  A service value svc holds is_running, stop_event, *)
(* streaming_thread (0: None) and the worker threads started so far; a      *)
(* worker is at the while test (check), in the cycle's pipeline run         *)
(* (cycle), in the wait loop between cycles (wait), at the finally clause   *)
(* (finally), or finished (dead).                                           *)

Service(running, event, thread, threads) ==
    [is_running |-> running, stop_event |-> event,
     streaming_thread |-> thread, workers |-> threads]

\* The max_iterations argument: None, or an integer.
NoLimit == [set |-> FALSE, n |-> 0]
Limit(m) == [set |-> TRUE, n |-> m]

\* Python's truth value of max_iterations: None and 0 are false.
Truthy(max_iterations) == max_iterations.set /\ max_iterations.n # 0

\* A thread entering _streaming_worker: iteration = 0.  wait_seconds is
\* interval_minutes * 60, counted here in ticks of time.sleep(1).
Worker(wait_seconds, max_iterations) ==
    [pc |-> "check", iteration |-> 0, max_iterations |-> max_iterations,
     wait_seconds |-> wait_seconds, wait_left |-> 0]

\* start_streaming without the test of is_running.
start_streaming_unguarded(svc, wait_seconds, max_iterations) ==
    [svc |-> Service(TRUE, FALSE, Len(svc.workers) + 1,
                     Append(svc.workers,
                            Worker(wait_seconds, max_iterations))),
     ret |-> TRUE]

\* start_streaming: False when is_running; otherwise is_running = True,
\* stop_event.clear(), a new thread started, True.
start_streaming(svc, wait_seconds, max_iterations) ==
    IF svc.is_running
    THEN [svc |-> svc, ret |-> FALSE]
    ELSE [svc |-> Service(TRUE, FALSE, Len(svc.workers) + 1,
                          Append(svc.workers,
                                 Worker(wait_seconds, max_iterations))),
          ret |-> TRUE]

is_alive(svc, thread) == thread # 0 /\ svc.workers[thread].pc # "dead"

\* stop_streaming without the test of is_running.
stop_streaming_unguarded(svc) ==
    [svc |-> [svc EXCEPT !.stop_event = TRUE, !.is_running = FALSE],
     joins |-> is_alive(svc, svc.streaming_thread), ret |-> TRUE]

\* stop_streaming up to the join: True at once when not is_running;
\* otherwise stop_event.set(), is_running = False, and the join of
\* streaming_thread when it is alive; True after the join.
stop_streaming(svc) ==
    IF ~svc.is_running
    THEN [svc |-> svc, joins |-> FALSE, ret |-> TRUE]
    ELSE [svc |-> [svc EXCEPT !.stop_event = TRUE, !.is_running = FALSE],
          joins |-> is_alive(svc, svc.streaming_thread), ret |-> TRUE]

\* get_streaming_status, without its timestamp.
get_streaming_status(svc) ==
    [is_running |-> svc.is_running, stop_event_set |-> svc.stop_event,
     thread_alive |-> is_alive(svc, svc.streaming_thread)]

\* The largest value of iteration that is kept: one more than the limit, 1
\* without a limit.
LastCounted(max_iterations) ==
    IF max_iterations.set THEN max_iterations.n + 1 ELSE 1

\* The while test of _streaming_worker and the start of a cycle:
\* iteration += 1.
worker_check(svc, w) ==
    LET me == svc.workers[w] IN
    IF svc.stop_event
    THEN [me EXCEPT !.pc = "finally"]
    ELSE IF Truthy(me.max_iterations) /\ me.iteration >= me.max_iterations.n
    THEN [me EXCEPT !.pc = "finally"]
    ELSE [me EXCEPT !.pc = "cycle",
                    !.iteration = IF @ >= LastCounted(me.max_iterations)
                                  THEN @ ELSE @ + 1]

\* What the try block of a cycle does: it runs to its end, or the pipeline
\* call raises, or the callback raises.
CycleOutcomes == {"returned", "pipeline raised", "callback raised"}

\* A cycle whose exceptions leave the while loop for the outer handler.
worker_cycle_propagates(me, outcome) ==
    IF outcome = "returned"
    THEN [me EXCEPT !.pc = "wait", !.wait_left = me.wait_seconds]
    ELSE [me EXCEPT !.pc = "finally"]

\* The end of a cycle: an exception of the callback is caught by the try
\* around it, any other exception of the cycle by the except of the cycle's
\* try; either way the wait loop is entered with range(wait_seconds).
worker_cycle(me, outcome) ==
    [me EXCEPT !.pc = "wait", !.wait_left = me.wait_seconds]

\* One pass of the wait loop without the test of stop_event.
worker_wait_full_interval(svc, w) ==
    LET me == svc.workers[w] IN
    IF me.wait_left = 0 THEN [me EXCEPT !.pc = "check"]
    ELSE [me EXCEPT !.wait_left = @ - 1]

\* One pass of the wait loop: the range is used up, or stop_event is set
\* (break), or time.sleep(1) is made.
worker_wait(svc, w) ==
    LET me == svc.workers[w] IN
    IF me.wait_left = 0 THEN [me EXCEPT !.pc = "check"]
    ELSE IF svc.stop_event THEN [me EXCEPT !.pc = "check"]
    ELSE [me EXCEPT !.wait_left = @ - 1]

\* A thread that has returned from _streaming_worker: its locals are gone.
Finished == [Worker(0, NoLimit) EXCEPT !.pc = "dead"]

-----------------------------------------------------------------------------
(* Specification of the streaming service: one caller calls start_streaming *)
(* and stop_streaming, the worker threads run beside it.  The store effects *)
(* of a cycle are those of the pipeline run (Spec) and are left out here.   *)

InitStream ==
    /\ StreamIdle
    /\ SchedIdle
    /\ DbIdle
    /\ RunIdle
    /\ XfIdle
    /\ LoadIdle
    /\ RateIdle
    /\ ProcIdle
    /\ CallIdle
    /\ PoolIdle
    /\ RaceIdle

ServiceNow == Service(is_running, stop_event, streaming_thread, workers)

SetService(svc) ==
    /\ is_running' = svc.is_running
    /\ stop_event' = svc.stop_event
    /\ streaming_thread' = svc.streaming_thread
    /\ workers' = svc.workers

\* The <<wait_seconds, max_iterations>> given to start_streaming.
StartArguments ==
    {<<MaxWait, NoLimit>>, <<MaxWait, Limit(0)>>,
     <<0, Limit(MaxIterations)>>, <<MaxWait, Limit(MaxIterations)>>}

\* One call of start_streaming(symbols, interval_minutes, max_iterations),
\* in a behaviour that starts at most max_threads threads.
StartStreamingWithin(max_threads) ==
    /\ caller_pc = "idle"
    /\ is_running \/ Len(workers) < max_threads
    /\ \E args \in StartArguments :
         \E r \in {start_streaming(ServiceNow, args[1], args[2])} :
             /\ SetService(r.svc)
             /\ started' = [none |-> FALSE, was_running |-> is_running,
                            ret |-> r.ret,
                            unchanged |-> r.svc = ServiceNow,
                            is_running |-> r.svc.is_running,
                            stop_event |-> r.svc.stop_event,
                            spawned |-> Len(r.svc.workers) - Len(workers),
                            thread_is_new |->
                               r.svc.streaming_thread # streaming_thread]
    /\ UNCHANGED <<caller_pc, stopped, nonStreamVars>>

StartStreaming == StartStreamingWithin(MaxWorkers)

\* A call of stop_streaming up to its return or its join.
StopStreaming ==
    /\ caller_pc = "idle"
    /\ \E r \in {stop_streaming(ServiceNow)} :
         /\ SetService(r.svc)
         /\ caller_pc' = IF r.joins THEN "join" ELSE "idle"
         /\ stopped' = [none |-> FALSE, was_running |-> is_running,
                        ret |-> r.ret,
                        unchanged |-> r.svc = ServiceNow,
                        is_running |-> r.svc.is_running,
                        stop_event |-> r.svc.stop_event,
                        threads |-> Len(workers),
                        repeated |-> IF stopped.none THEN FALSE
                                     ELSE /\ stopped.was_running
                                          /\ stopped.threads = Len(workers)]
    /\ UNCHANGED <<started, nonStreamVars>>

\* streaming_thread.join(timeout=10) returns because the thread has finished.
JoinFinished ==
    /\ caller_pc = "join"
    /\ ~is_alive(ServiceNow, streaming_thread)
    /\ caller_pc' = "idle"
    /\ UNCHANGED <<is_running, stop_event, streaming_thread, workers, started,
                   stopped, nonStreamVars>>

\* The join times out: the thread is still in a cycle's pipeline run, which
\* does not look at stop_event.
JoinTimeout ==
    /\ caller_pc = "join"
    /\ is_alive(ServiceNow, streaming_thread)
    /\ workers[streaming_thread].pc = "cycle"
    /\ caller_pc' = "idle"
    /\ UNCHANGED <<is_running, stop_event, streaming_thread, workers, started,
                   stopped, nonStreamVars>>

WorkerCheck(w) ==
    /\ workers[w].pc = "check"
    /\ workers' = [workers EXCEPT ![w] = worker_check(ServiceNow, w)]
    /\ UNCHANGED <<is_running, stop_event, streaming_thread, caller_pc, started,
                   stopped, nonStreamVars>>

\* The cycle's process_multiple_stocks_intraday call and callback return.
WorkerCycle(w) ==
    /\ workers[w].pc = "cycle"
    /\ \E outcome \in CycleOutcomes :
         workers' = [workers EXCEPT ![w] = worker_cycle(workers[w], outcome)]
    /\ UNCHANGED <<is_running, stop_event, streaming_thread, caller_pc, started,
                   stopped, nonStreamVars>>

\* One pass of the wait loop: a second of the wait goes by, or the loop is
\* left.
WorkerWait(w) ==
    /\ workers[w].pc = "wait"
    /\ workers' = [workers EXCEPT ![w] = worker_wait(ServiceNow, w)]
    /\ UNCHANGED <<is_running, stop_event, streaming_thread, caller_pc, started,
                   stopped, nonStreamVars>>

\* finally: self.is_running = False.
WorkerFinally(w) ==
    /\ workers[w].pc = "finally"
    /\ workers' = [workers EXCEPT ![w] = Finished]
    /\ is_running' = FALSE
    /\ UNCHANGED <<stop_event, streaming_thread, caller_pc, started,
                   stopped, nonStreamVars>>

WorkerStep ==
    \E w \in DOMAIN workers :
        \/ WorkerCheck(w)
        \/ WorkerCycle(w)
        \/ WorkerWait(w)
        \/ WorkerFinally(w)

NextStream ==
    \/ StartStreaming
    \/ StopStreaming
    \/ JoinFinished
    \/ JoinTimeout
    \/ WorkerStep

SpecStream == InitStream /\ [][NextStream]_vars

\* The steps of thread w that need only the thread to be scheduled and
\* time.sleep(1) to return; the cycle's pipeline run is not among them.
WorkerPolls(w) ==
    /\ w \in DOMAIN workers
    /\ WorkerCheck(w) \/ WorkerWait(w) \/ WorkerFinally(w)

NextStreamLive ==
    \/ StartStreamingWithin(MaxLiveWorkers)
    \/ StopStreaming
    \/ JoinFinished
    \/ JoinTimeout
    \/ WorkerStep

\* The streaming service with every started thread scheduled again and
\* again, and a join that returns once its thread has finished.
SpecStreamLive ==
    /\ InitStream
    /\ [][NextStreamLive]_vars
    /\ \A w \in 1..MaxLiveWorkers : WF_vars(WorkerPolls(w))
    /\ WF_vars(JoinFinished)

\* WorkerCycle with what the cycle did kept in last.
WorkerCycleSeen(w) ==
    /\ workers[w].pc = "cycle"
    /\ \E outcome \in CycleOutcomes :
         /\ workers' = [workers EXCEPT
                           ![w] = worker_cycle(workers[w], outcome)]
         /\ last' = [none |-> FALSE, worker |-> w, outcome |-> outcome,
                     is_running |-> is_running]
    /\ UNCHANGED <<is_running, stop_event, streaming_thread, caller_pc, started,
                   stopped, symbols, idx, results, history, xfVars, dbVars,
                   loadVars, rateVars, schedVars, procVars,
                   callVars, poolVars, raceVars>>

WorkerStepSeen ==
    \E w \in DOMAIN workers :
        \/ WorkerCheck(w)
        \/ WorkerCycleSeen(w)
        \/ WorkerWait(w)
        \/ WorkerFinally(w)

NextCycle ==
    \/ StartStreamingWithin(MaxLiveWorkers)
    \/ StopStreaming
    \/ JoinFinished
    \/ JoinTimeout
    \/ WorkerStepSeen

\* The streaming service with what each cycle did on record.
SpecCycle == InitStream /\ [][NextCycle]_vars

-----------------------------------------------------------------------------
(* Specification of the process started through trigger_pipeline: an        *)
(* ETLRunner whose streaming service is started and stopped by the main     *)
(* thread, the worker threads beside it, and a SIGINT or SIGTERM delivered  *)
(* to the main thread.                                                      *)

\* signal.signal(signum, handler): the handler replaces the installed one.
signal_signal(installed, handler) == handler

\* DataStreamingService.__init__ installs its _signal_handler.
DataStreamingService_init(installed) ==
    signal_signal(installed, "DataStreamingService._signal_handler")

\* ETLRunner.__init__: the streaming service is constructed first, the
\* runner's own _signal_handler is installed last.
ETLRunner_init(installed) ==
    signal_signal(DataStreamingService_init(installed),
                  "ETLRunner._signal_handler")

\* ETLRunner.stop: self.is_running = False.
runner_stop(flag) == FALSE

\* The installed handler run on a signal, up to sys.exit(0): the runner's
\* handler calls ETLRunner.stop, the service's calls stop_streaming; without
\* a handler the interpreter's default ends the process.
signal_delivered(handler, svc, flag) ==
    CASE handler = "ETLRunner._signal_handler" ->
            [svc |-> svc, runner_is_running |-> runner_stop(flag),
             stop_streaming |-> FALSE]
      [] handler = "DataStreamingService._signal_handler" ->
            [svc |-> stop_streaming(svc).svc, runner_is_running |-> flag,
             stop_streaming |-> TRUE]
      [] OTHER ->
            [svc |-> svc, runner_is_running |-> flag,
             stop_streaming |-> FALSE]

\* The process after runner = ETLRunner() in main.
InitRunner ==
    /\ StreamIdle
    /\ SchedIdle
    /\ DbIdle
    /\ RunIdle
    /\ XfIdle
    /\ LoadIdle
    /\ RateIdle
    /\ signal_handler = ETLRunner_init("default")
    /\ runner_is_running = FALSE
    /\ exited = FALSE
    /\ signalled = NoneVal
    /\ CallIdle
    /\ PoolIdle
    /\ RaceIdle

\* SIGINT or SIGTERM while the process runs: the installed handler runs in
\* the main thread and the process exits, its daemon threads with it.
Signal ==
    /\ ~exited
    /\ \E r \in {signal_delivered(signal_handler, ServiceNow,
                                   runner_is_running)} :
         /\ SetService(r.svc)
         /\ runner_is_running' = r.runner_is_running
         /\ exited' = TRUE
         /\ signalled' = [none |-> FALSE, handler |-> signal_handler,
                          is_running |-> is_running,
                          stop_event |-> stop_event,
                          thread_alive |->
                             is_alive(ServiceNow, streaming_thread),
                          stop_streaming |-> r.stop_streaming]
    /\ UNCHANGED <<signal_handler, caller_pc, started, stopped, xfVars,
                   dbVars, runVars, loadVars, rateVars, schedVars, callVars,
                   poolVars, raceVars>>

\* What the process does while it has not exited: ETLRunner.start_streaming
\* and stop_streaming pass on to the streaming service; the workers run.
RunnerStartStreaming == ~exited /\ StartStreamingWithin(MaxLiveWorkers)
RunnerStopStreaming == ~exited /\ StopStreaming
RunnerJoinFinished == ~exited /\ JoinFinished
RunnerJoinTimeout == ~exited /\ JoinTimeout
RunnerWorkerStep == ~exited /\ WorkerStep

NextRunner ==
    \/ RunnerStartStreaming
    \/ RunnerStopStreaming
    \/ RunnerJoinFinished
    \/ RunnerJoinTimeout
    \/ RunnerWorkerStep
    \/ Signal

SpecRunner == InitRunner /\ [][NextRunner]_vars

-----------------------------------------------------------------------------
(* Specification of the market-hours questions: a MarketScheduler with one  *)
(* of a few schedules is asked about one instant of a week.                 *)

\* The instants asked about: every hour of every day of one week, on the
\* hour, half past, and in the second before the next hour.
Instants ==
    {datetime(day, hour, ms[1], ms[2]) :
        day \in 0..6, hour \in 0..23, ms \in {<<0, 0>>, <<30, 0>>, <<59, 59>>}}

\* trading_days of the schedules: the default, one day, the weekend, and
\* every other day.
TradingDays == {MondayToFriday, {2}, {5, 6}, {0, 2, 4, 6}}

\* The hours of the schedules: the defaults, windows that touch and are
\* empty (pre-market and after-hours of no length), a market that opens at
\* midnight, and hours out of order (the close before the open).
HourSettings ==
    {<<4, 9, 16, 20>>, <<9, 9, 16, 16>>, <<0, 0, 23, 23>>, <<4, 16, 9, 20>>}

InitMarket ==
    /\ market_schedule \in {MarketScheduleAt(hours, days) :
                               hours \in HourSettings, days \in TradingDays}
    /\ asked_at \in Instants
    /\ answer = NoneVal
    /\ scheduled_jobs = <<>>
    /\ sched_call = NoneVal
    /\ StreamIdle
    /\ DbIdle
    /\ RunIdle
    /\ XfIdle
    /\ LoadIdle
    /\ RateIdle
    /\ ProcIdle
    /\ CallIdle
    /\ PoolIdle
    /\ RaceIdle

Answer(op, value) ==
    /\ answer' = [none |-> FALSE, op |-> op, value |-> value]
    /\ UNCHANGED <<market_schedule, scheduled_jobs, asked_at, sched_call,
                   nonSchedVars>>

IsMarketOpen ==
    Answer("is_market_open", is_market_open(market_schedule, asked_at))

IsPreMarket ==
    Answer("is_pre_market", is_pre_market(market_schedule, asked_at))

IsAfterHours ==
    Answer("is_after_hours", is_after_hours(market_schedule, asked_at))

GetNextMarketOpen ==
    Answer("get_next_market_open",
           get_next_market_open(market_schedule, asked_at))

GetNextMarketClose ==
    Answer("get_next_market_close",
           get_next_market_close(market_schedule, asked_at))

NextMarket ==
    \/ IsMarketOpen
    \/ IsPreMarket
    \/ IsAfterHours
    \/ GetNextMarketOpen
    \/ GetNextMarketClose

SpecMarket == InitMarket /\ [][NextMarket]_vars

-----------------------------------------------------------------------------
(* Specification of the scheduled jobs: one caller registers, removes and   *)
(* runs jobs on a MarketScheduler with the default schedule.                *)

JobNames == {"open", "close"}

\* <<symbols, interval_minutes, callback>> of a registration.
JobArguments ==
    {<<(<<"AAPL">>), 5, "none">>, <<(<<"AAPL">>), 5, "raises">>,
     <<(<<"AAPL", "MSFT">>), 1, "returns">>}

\* utcnow() at a registration: Wednesday 10:00 or Saturday 10:00.
RegistrationTimes == {datetime(2, 10, 0, 0), datetime(5, 10, 0, 0)}

\* utcnow() at a pass of run_scheduled_jobs: Wednesday 6:00, 10:00, 17:00
\* or Saturday 10:00.
RunTimes ==
    {datetime(2, 6, 0, 0), datetime(2, 10, 0, 0), datetime(2, 17, 0, 0),
     datetime(5, 10, 0, 0)}

InitSched ==
    /\ SchedIdle
    /\ StreamIdle
    /\ DbIdle
    /\ RunIdle
    /\ XfIdle
    /\ LoadIdle
    /\ RateIdle
    /\ ProcIdle
    /\ CallIdle
    /\ PoolIdle
    /\ RaceIdle

\* What a call did: its name, argument and return value, whether the name
\* was a key before it, what it left of the dict, whether the call before
\* it removed the same name, and for run_scheduled_jobs its results.
SchedCall(op, job_name, r, times) ==
    [none |-> FALSE, op |-> op, job_name |-> job_name, ret |-> r.ret,
     was_present |-> job_name \in JobKeys(scheduled_jobs),
     before |-> Len(scheduled_jobs),
     unchanged |-> r.jobs = scheduled_jobs,
     others_kept |-> \A i \in DOMAIN scheduled_jobs :
                        scheduled_jobs[i].name # job_name =>
                            \E k \in DOMAIN r.jobs :
                                r.jobs[k] = scheduled_jobs[i],
     after_removal |-> /\ sched_call # NoneVal
                       /\ sched_call.op = "remove_scheduled_job"
                       /\ sched_call.job_name = job_name
                       /\ sched_call.ret = TRUE,
     times |-> times]

Called(op, job_name, r, times) ==
    /\ scheduled_jobs' = r.jobs
    /\ sched_call' = SchedCall(op, job_name, r, times)
    /\ UNCHANGED <<market_schedule, asked_at, answer, nonSchedVars>>

ScheduleMarketHoursJob ==
    \E job_name \in JobNames, args \in JobArguments,
       utcnow \in RegistrationTimes :
        Called("schedule_market_hours_job", job_name,
               schedule_market_hours_job(scheduled_jobs, job_name, args[1],
                                         args[2], args[3], utcnow), <<>>)

SchedulePreMarketJob ==
    \E job_name \in JobNames, args \in JobArguments,
       utcnow \in RegistrationTimes :
        Called("schedule_pre_market_job", job_name,
               schedule_pre_market_job(scheduled_jobs, job_name, args[1],
                                       args[2], args[3], utcnow), <<>>)

ScheduleAfterHoursJob ==
    \E job_name \in JobNames, args \in JobArguments,
       utcnow \in RegistrationTimes :
        Called("schedule_after_hours_job", job_name,
               schedule_after_hours_job(scheduled_jobs, job_name, args[1],
                                        args[2], args[3], utcnow), <<>>)

RemoveScheduledJob ==
    \E job_name \in JobNames :
        Called("remove_scheduled_job", job_name,
               remove_scheduled_job(scheduled_jobs, job_name), <<>>)

\* One call of run_scheduled_jobs; the dict is left as it is.
RunScheduledJobs ==
    \E times \in [DOMAIN scheduled_jobs -> RunTimes],
       faults \in SUBSET DOMAIN scheduled_jobs :
        Called("run_scheduled_jobs", "",
               [jobs |-> scheduled_jobs,
                ret |-> run_scheduled_jobs(market_schedule, scheduled_jobs,
                                           times, faults)],
               times)

NextSched ==
    \/ ScheduleMarketHoursJob
    \/ SchedulePreMarketJob
    \/ ScheduleAfterHoursJob
    \/ RemoveScheduledJob
    \/ RunScheduledJobs

SpecSched == InitSched /\ [][NextSched]_vars

-----------------------------------------------------------------------------
(* run_scheduled_jobs with callbacks that call the scheduler they were      *)
(* registered on.  A callback "registers" calls schedule_market_hours_job   *)
(* with the name "late"; a callback "removes" calls remove_scheduled_job    *)
(* with the name of its own job.  The for loop iterates                     *)
(* self.scheduled_jobs.items(): the dict iterator raises RuntimeError       *)
(* ("dictionary changed size during iteration") at the first step it is     *)
(* asked for after the size of the dict has changed, and the for statement  *)
(* is inside no try block.                                                  *)

\* The dict after the callback of job_config was called at t.
callback_effect(jobs, job_config, t) ==
    CASE job_config.callback = "registers" ->
            schedule_market_hours_job(jobs, "late", job_config.symbols,
                                      job_config.interval_minutes, "none",
                                      t).jobs
      [] job_config.callback = "removes" ->
            remove_scheduled_job(jobs, job_config.name).jobs
      [] OTHER -> jobs

\* Whether the pass over job_config gets as far as its callback.
callback_called(schedule, job_config, t, raises) ==
    should_run(schedule, job_config, t) /\ ~raises
        /\ job_config.callback # "none"

\* The for loop from its i-th step on.  entries: the dict as it was when the
\* iterator was made; jobs: the dict now; so_far: the results so far.
RECURSIVE run_jobs_from(_, _, _, _, _, _, _)
run_jobs_from(schedule, entries, jobs, i, so_far, times, faults) ==
    IF Len(jobs) # Len(entries)
    THEN [jobs |-> jobs, ret |-> so_far, raised |-> TRUE]
    ELSE IF i > Len(entries)
    THEN [jobs |-> jobs, ret |-> so_far, raised |-> FALSE]
    ELSE run_jobs_from(
            schedule, entries,
            IF callback_called(schedule, entries[i], times[i], i \in faults)
            THEN callback_effect(jobs, entries[i], times[i]) ELSE jobs,
            i + 1,
            Append(so_far,
                   run_job(schedule, entries[i], times[i], i \in faults)),
            times, faults)

\* run_scheduled_jobs on the dict it iterates.  raised: RuntimeError left
\* the function, and ret, the results so far, was not returned.
run_scheduled_jobs_iterating(schedule, jobs, times, faults) ==
    run_jobs_from(schedule, jobs, jobs, 1, <<>>, times, faults)

\* <<symbols, interval_minutes, callback>> of a registration.
PassArguments ==
    {<<(<<"AAPL">>), 5, "returns">>, <<(<<"AAPL">>), 5, "registers">>,
     <<(<<"AAPL">>), 5, "removes">>}

\* A call of schedule_market_hours_job or of schedule_pre_market_job.
RegisterJob ==
    \E job_name \in JobNames, args \in PassArguments,
       utcnow \in RegistrationTimes :
        \/ Called("schedule_market_hours_job", job_name,
                  schedule_market_hours_job(scheduled_jobs, job_name, args[1],
                                            args[2], args[3], utcnow), <<>>)
        \/ Called("schedule_pre_market_job", job_name,
                  schedule_pre_market_job(scheduled_jobs, job_name, args[1],
                                          args[2], args[3], utcnow), <<>>)

\* One call of run_scheduled_jobs, every job at the same hour.
RunScheduledJobsIterating ==
    \E now \in RunTimes, faults \in SUBSET DOMAIN scheduled_jobs :
        \E r \in {run_scheduled_jobs_iterating(
                     market_schedule, scheduled_jobs,
                     [i \in DOMAIN scheduled_jobs |-> now], faults)} :
            /\ scheduled_jobs' = r.jobs
            /\ sched_call' = [none |-> FALSE, op |-> "run_scheduled_jobs",
                              registered |-> JobKeys(scheduled_jobs),
                              ret |-> r.ret, raised |-> r.raised]
            /\ UNCHANGED <<market_schedule, asked_at, answer, nonSchedVars>>

NextPass ==
    \/ RegisterJob
    \/ RunScheduledJobsIterating

SpecPass == InitSched /\ [][NextPass]_vars

-----------------------------------------------------------------------------
(* DatabaseManager.execute_query step by step, called by threads that run   *)
(* process_stock_intraday side by side (the streaming worker, a CLI batch). *)
(* borrowed[c] is the thread that holds connection c, 0 when c is in the    *)
(* pool.                                                                    *)

\* conn = None, the first line of execute_query.
NoConn == 0

\* get_connection: the connections getconn can hand out; none when the pool
\* is not initialised or exhausted, and the call raises.
get_connection(pool, held) ==
    IF pool THEN {c \in Conns : held[c] = 0} ELSE {}

\* return_connection: putconn when the pool and the connection are there.
return_connection_dropped(pool, held, conn) == held

return_connection(pool, held, conn) ==
    IF pool /\ conn # NoConn THEN [held EXCEPT ![conn] = 0] ELSE held

\* A thread entering process_stock_intraday, about to wait in _rate_limit.
\* stage: where it is in the pipeline; left: the execute_query calls the
\* stage has still to make; at: where it is in execute_query; conn: the
\* local of execute_query; exc: an exception is on its way out; did: what
\* the call did with the connection last.
Pipeline ==
    [stage |-> "rate_limit", left |-> 0, at |-> "none", conn |-> NoConn,
     exc |-> FALSE, did |-> "nothing"]

InitPool ==
    /\ XfIdle
    /\ DbIdle
    /\ RunIdle
    /\ LoadIdle
    /\ RateIdle
    /\ StreamIdle
    /\ SchedIdle
    /\ ProcIdle
    /\ CallIdle
    /\ PoolIdle
    /\ RaceIdle

nonPoolVars == <<xfVars, runVars, loadVars, rateVars, streamVars, schedVars,
                 procVars, callVars, raceVars, stocks, stock_prices_intraday,
                 etl_job_logs>>

\* _ensure_db_connection: init_connection_pool when there is no pool yet.
EnsureDbConnection ==
    /\ Len(pipelines) < MaxPipelines
    /\ connection_pool' = TRUE
    /\ pipelines' = Append(pipelines, Pipeline)
    /\ UNCHANGED <<borrowed, nonPoolVars>>

\* The wait of _rate_limit is over; the request goes out.
RateLimitOver(t) ==
    /\ pipelines[t].stage = "rate_limit"
    /\ pipelines' = [pipelines EXCEPT ![t].stage = "request"]
    /\ UNCHANGED <<borrowed, connection_pool, nonPoolVars>>

\* The provider answers: data to load (one execute_query per statement of
\* the load stage), or nothing, and the FAILED job log is written.
ResponseArrives(t) ==
    /\ pipelines[t].stage = "request"
    /\ \/ \E k \in 1..MaxStatements :
            pipelines' = [pipelines EXCEPT ![t].stage = "load", ![t].left = k]
       \/ pipelines' = [pipelines EXCEPT ![t].stage = "log", ![t].left = 1]
    /\ UNCHANGED <<borrowed, connection_pool, nonPoolVars>>

\* conn = self.get_connection(), the first statement of the try block.
GetConnection(t) ==
    /\ pipelines[t].stage \in {"load", "log"}
    /\ pipelines[t].at = "none"
    /\ pipelines[t].left > 0
    /\ IF get_connection(connection_pool, borrowed) = {}
       THEN /\ pipelines' = [pipelines EXCEPT ![t].at = "except",
                                              ![t].conn = NoConn,
                                              ![t].did = "nothing"]
            /\ UNCHANGED borrowed
       ELSE \E c \in get_connection(connection_pool, borrowed) :
            /\ borrowed' = [borrowed EXCEPT ![c] = t]
            /\ pipelines' = [pipelines EXCEPT ![t].at = "execute",
                                              ![t].conn = c,
                                              ![t].did = "nothing"]
    /\ UNCHANGED <<connection_pool, nonPoolVars>>

\* conn.cursor(), cursor.execute and the fetch: they go through or raise.
QueryExecute(t) ==
    /\ pipelines[t].at = "execute"
    /\ \E raised \in BOOLEAN :
         pipelines' = [pipelines EXCEPT
                          ![t].at = IF raised THEN "except" ELSE "commit"]
    /\ UNCHANGED <<borrowed, connection_pool, nonPoolVars>>

\* conn.commit() and cursor.close(), then return result.
QueryCommit(t) ==
    /\ pipelines[t].at = "commit"
    /\ \E raised \in BOOLEAN :
         pipelines' = [pipelines EXCEPT
                          ![t].at = IF raised THEN "except" ELSE "finally",
                          ![t].did = IF raised THEN @ ELSE "commit"]
    /\ UNCHANGED <<borrowed, connection_pool, nonPoolVars>>

\* except Exception: conn.rollback() if there is a connection, then raise;
\* a rollback that raises leaves the block with its own exception.
QueryExcept(t) ==
    /\ pipelines[t].at = "except"
    /\ pipelines' = [pipelines EXCEPT
                        ![t].at = "finally",
                        ![t].exc = TRUE,
                        ![t].did = IF pipelines[t].conn # NoConn
                                   THEN "rollback" ELSE @]
    /\ UNCHANGED <<borrowed, connection_pool, nonPoolVars>>

\* finally: return_connection(conn) if there is a connection; execute_query
\* is left, by return or by the exception.
QueryFinally(t) ==
    /\ pipelines[t].at = "finally"
    /\ borrowed' = IF pipelines[t].conn # NoConn
                   THEN return_connection(connection_pool, borrowed,
                                          pipelines[t].conn)
                   ELSE borrowed
    /\ pipelines' = [pipelines EXCEPT
                        ![t].at = IF pipelines[t].exc THEN "raised"
                                  ELSE "returned"]
    /\ UNCHANGED <<connection_pool, nonPoolVars>>

\* The caller of execute_query goes on: to its next statement, from the load
\* stage to the job log, or out of process_stock_intraday.
StatementDone(t) ==
    /\ pipelines[t].at \in {"returned", "raised"}
    /\ pipelines' =
         [pipelines EXCEPT
            ![t].at = "none",
            ![t].exc = FALSE,
            ![t].left = IF @ > 1 THEN @ - 1
                        ELSE IF pipelines[t].stage = "load" THEN 1 ELSE 0,
            ![t].stage = IF pipelines[t].left > 1 THEN @
                         ELSE IF @ = "load" THEN "log" ELSE "done"]
    /\ UNCHANGED <<borrowed, connection_pool, nonPoolVars>>

PipelineStep ==
    \E t \in DOMAIN pipelines :
        \/ RateLimitOver(t)
        \/ ResponseArrives(t)
        \/ GetConnection(t)
        \/ QueryExecute(t)
        \/ QueryCommit(t)
        \/ QueryExcept(t)
        \/ QueryFinally(t)
        \/ StatementDone(t)

NextPool ==
    \/ EnsureDbConnection
    \/ PipelineStep

SpecPool == InitPool /\ [][NextPool]_vars

-----------------------------------------------------------------------------
(* _load_single_price_record statement by statement, run by loaders side by *)
(* side (the streaming worker and a CLI batch, each with an ETLService of   *)
(* its own) against the one stock_prices_intraday table.  Each              *)
(* execute_query is a transaction of its own, committed when it returns.    *)

\* A loader entering _load_single_price_record with its record.  existing:
\* the local existing_record as a truth value; ret: what the call returned.
Loader(rec) ==
    [pc |-> "check", rec |-> rec, existing |-> FALSE, ret |-> NoneVal]

\* The SELECT id ... WHERE stock_symbol, timestamp, interval with fetch_one.
existing_record(rows, rec) == \E i \in DOMAIN rows : SameKey(rows[i], rec)

\* The table after the second statement: the UPDATE of the rows with the
\* key when the SELECT found one, the INSERT of a new row when not.  The
\* table has no UNIQUE constraint on the key.
update_or_insert(rows, rec, existing) ==
    IF existing THEN UpdateRows(rows, rec) ELSE Append(rows, rec)

InitRace ==
    /\ stocks = FacadeStocks
    /\ stock_prices_intraday \in {<<>>} \cup {<<rec>> : rec \in LoadRecords}
    /\ etl_job_logs = <<>>
    /\ connection_pool = TRUE
    /\ XfIdle
    /\ RunIdle
    /\ LoadIdle
    /\ RateIdle
    /\ StreamIdle
    /\ SchedIdle
    /\ ProcIdle
    /\ CallIdle
    /\ PoolIdle
    /\ RaceIdle

nonRaceVars == <<xfVars, runVars, loadVars, rateVars, streamVars, schedVars,
                 procVars, callVars, poolVars, stocks, etl_job_logs,
                 connection_pool>>

\* A loader is given a record to load.
LoaderBegin ==
    /\ Len(loaders) < MaxLoaders
    /\ \E rec \in LoadRecords : loaders' = Append(loaders, Loader(rec))
    /\ UNCHANGED <<stock_prices_intraday, nonRaceVars>>

\* The check: the SELECT returns, or raises and the loader returns False.
LoaderCheck(l) ==
    /\ loaders[l].pc = "check"
    /\ \E raised \in BOOLEAN :
         loaders' =
            IF raised
            THEN [loaders EXCEPT ![l].pc = "done", ![l].ret = FALSE]
            ELSE [loaders EXCEPT
                     ![l].pc = "write",
                     ![l].existing =
                        existing_record(stock_prices_intraday,
                                        loaders[l].rec)]
    /\ UNCHANGED <<stock_prices_intraday, nonRaceVars>>

\* The UPDATE or the INSERT: committed and True, or raised and False.
LoaderWrite(l) ==
    /\ loaders[l].pc = "write"
    /\ \E raised \in BOOLEAN :
         IF raised \/ ~DecimalFits(loaders[l].rec)
         THEN /\ loaders' = [loaders EXCEPT ![l].pc = "done",
                                            ![l].ret = FALSE]
              /\ UNCHANGED stock_prices_intraday
         ELSE /\ stock_prices_intraday' =
                    update_or_insert(stock_prices_intraday, loaders[l].rec,
                                     loaders[l].existing)
              /\ loaders' = [loaders EXCEPT ![l].pc = "done",
                                            ![l].ret = TRUE]
    /\ UNCHANGED nonRaceVars

LoaderStep ==
    \E l \in DOMAIN loaders :
        \/ LoaderCheck(l)
        \/ LoaderWrite(l)

NextRace ==
    \/ LoaderBegin
    \/ LoaderStep

SpecRace == InitRace /\ [][NextRace]_vars

-----------------------------------------------------------------------------
(* C3: the record list produced by the transform holds exactly the entries  *)
(* that satisfy all PricePoint invariants (the four prices > 0, volume >=   *)
(* 0, high >= max(open, close), low <= min(open, close), no price above the *)
(* ceiling), in the order of the series, and no other entry.                *)

\* The entry's fields read as numbers (a missing field reads as 0).
Parses(e) ==
    /\ ~parse_timestamp(e.ts).err
    /\ \A f \in {e.open, e.high, e.low, e.close} : ~PyFloat(f).err
    /\ ~PyInt(e.volume).err

IsPositive(f) == f.k = "num" /\ f.n > 0
AsNumber(f) == IF f.k = "num" THEN f.n ELSE 0
Larger(a, b) == IF a >= b THEN a ELSE b
Smaller(a, b) == IF a <= b THEN a ELSE b

SatisfiesPricePoint(e) ==
    /\ Parses(e)
    /\ \A f \in {e.open, e.high, e.low, e.close} :
          IsPositive(f) /\ f.n <= PriceCeiling
    /\ AsNumber(e.volume) >= 0
    /\ e.high.n >= Larger(e.open.n, e.close.n)
    /\ e.low.n <= Smaller(e.open.n, e.close.n)

AcceptedTimestamps(series) ==
    LET ok == SelectSeq(series, SatisfiesPricePoint)
    IN  [i \in 1..Len(ok) |-> ok[i].ts.t]

RecordTimestamps(records) == [i \in 1..Len(records) |-> records[i].timestamp]

C3_TransformKeepsExactlyValid ==
    xf_pc = "done" =>
        RecordTimestamps(price_records) = AcceptedTimestamps(time_series)

-----------------------------------------------------------------------------
(* C1: process_multiple_stocks_intraday calls process_stock_intraday once   *)
(* for every symbol of the list, in list order, also after earlier symbols  *)
(* failed; in the result map a symbol whose extraction failed has 0 and     *)
(* every symbol has the number of price rows its (latest) call wrote.       *)

\* The last call made for the symbol.
LatestCall(symbol) ==
    history[CHOOSE i \in DOMAIN history :
              /\ history[i].symbol = symbol
              /\ \A j \in DOMAIN history :
                    history[j].symbol = symbol => j <= i]

C1_EverySymbolInOrder ==
    /\ idx = Len(history)
    /\ idx <= Len(symbols)
    /\ \A i \in DOMAIN history : history[i].symbol = symbols[i]
    /\ DOMAIN results = {history[i].symbol : i \in DOMAIN history}
    /\ \A symbol \in DOMAIN results :
          /\ results[symbol] = LatestCall(symbol).written
          /\ ~LatestCall(symbol).extracted => results[symbol] = 0

\* A finished run of distinct symbols in which the first extraction failed
\* and a later symbol loaded rows.
C1_Witness ==
    /\ Len(symbols) >= 2
    /\ idx = Len(symbols)
    /\ symbols[1] # symbols[2]
    /\ ~history[1].extracted
    /\ results[symbols[1]] = 0
    /\ results[symbols[2]] > 0

-----------------------------------------------------------------------------
(* C4: in process_stock_intraday, when a stage (extract, transform, load)   *)
(* gives a non-success result, no later stage is invoked, a FAILED job-log  *)
(* row naming the symbol and the cause is written, and 0 is returned.  The  *)
(* row is not asked for when the job-log INSERT itself raised.              *)

StagesUpTo(stage) ==
    CASE stage = "extract" -> <<"extract">>
      [] stage = "transform" -> <<"extract", "transform">>
      [] stage = "load" -> <<"extract", "transform", "load">>

IsJobName(name, symbol) ==
    name = <<"intraday_etl_", symbol>> \/ name = <<"intraday_etl_", Upper(symbol)>>

C4_FailedStageStopsAndLogs ==
    (~last.none /\ last.failed \in {"extract", "transform", "load"}) =>
        /\ last.stages = StagesUpTo(last.failed)
        /\ last.ret = 0
        /\ last.logfail \/
              \E i \in DOMAIN last.new_logs :
                 /\ last.new_logs[i].status = "FAILED"
                 /\ IsJobName(last.new_logs[i].job_name, last.symbol)
                 /\ last.new_logs[i].error_message # ""

-----------------------------------------------------------------------------
(* C5: process_stock_intraday never lets an exception out: every call       *)
(* returns an integer, the count of loaded rows, and 0 when a stage, the    *)
(* connection or the job-log write failed before the load finished.         *)

C5_NeverPropagates ==
    ~last.none =>
        /\ ~last.exc
        /\ last.ret \in 0..MaxResponseSeries
        /\ last.failed # "none" => last.ret = 0

\* A call whose own job-log write raised (the store was not reachable) and
\* that still returned 0.
C5_Witness ==
    /\ ~last.none
    /\ last.failed = "connection"
    /\ last.logfail
    /\ last.ret = 0
    /\ ~last.exc

-----------------------------------------------------------------------------
(* C6: every call of process_stock_intraday appends exactly one job-log row *)
(* named intraday_etl_<SYMBOL>, unless the job-log INSERT itself raised.    *)

C6_OneJobLogRowPerCall ==
    (~last.none /\ ~last.logfail) =>
        /\ Len(last.new_logs) = 1
        /\ IsJobName(last.new_logs[1].job_name, last.symbol)

-----------------------------------------------------------------------------
(* C2: after any sequence of sequential price loads the store holds at most *)
(* one row per key (symbol, timestamp, interval), and a record whose write  *)
(* succeeded is the one row of its key, with the values of that write: when *)
(* the key was there with other values, the second write's values replace   *)
(* them.                                                                    *)

RowsUnder(rec) ==
    {i \in DOMAIN stock_prices_intraday : SameKey(stock_prices_intraday[i], rec)}

C2_OneRowPerKeyLastWriteWins ==
    /\ \A i, j \in DOMAIN stock_prices_intraday :
          SameKey(stock_prices_intraday[i], stock_prices_intraday[j]) => i = j
    /\ (~loaded.none /\ loaded.count = Len(loaded.records)) =>
          \A k \in DOMAIN loaded.records :
             /\ Cardinality(RowsUnder(loaded.records[k])) = 1
             /\ \A i \in RowsUnder(loaded.records[k]) :
                   stock_prices_intraday[i] = loaded.records[k]

\* A second write of a key with other values has succeeded.
C2_Witness ==
    /\ ~loaded.none
    /\ loaded.op = "load_single_price_record"
    /\ loaded.ok
    /\ loaded.replaced[1] # <<>>
    /\ loaded.replaced[1][1] # loaded.records[1]
    /\ \E i \in DOMAIN stock_prices_intraday :
          stock_prices_intraday[i] = loaded.records[1]

-----------------------------------------------------------------------------
(* C7: every load_transformed_data call on a transformed result appends     *)
(* exactly one job-log row, SUCCESS when the call gave success and FAILED   *)
(* with an error message otherwise, unless the job-log INSERT itself        *)
(* raised.                                                                  *)

C7_OneJobLogRowPerLoad ==
    (~loaded.none /\ loaded.op = "load_transformed_data" /\ ~loaded.logfail) =>
        /\ Len(loaded.new_logs) = 1
        /\ loaded.ok => loaded.new_logs[1].status = "SUCCESS"
        /\ ~loaded.ok =>
              /\ loaded.new_logs[1].status = "FAILED"
              /\ loaded.new_logs[1].error_message # ""

-----------------------------------------------------------------------------
(* C8: for one caller of _rate_limit with interval rate_limit_delay, two    *)
(* consecutive acquisitions complete at least rate_limit_delay apart, so N  *)
(* acquisitions take at least (N-1) * rate_limit_delay; last_call_time is   *)
(* taken only after the wait is over.                                       *)

C8_AcquisitionsSpaced ==
    /\ \A i \in DOMAIN acquired :
          i > 1 => acquired[i] - acquired[i - 1] >= rate_limit_delay
    /\ acquired # <<>> =>
          acquired[Len(acquired)] - acquired[1]
             >= (Len(acquired) - 1) * rate_limit_delay
    /\ ~limited.none =>
          /\ limited.woke >= limited.current_time + limited.sleep_time
          /\ last_call_time >= limited.woke

\* Three acquisitions exactly two intervals apart, the last one after a wait.
C8_Witness ==
    /\ Len(acquired) >= 3
    /\ acquired[3] - acquired[1] = 2 * rate_limit_delay
    /\ ~limited.none
    /\ limited.sleep_time > 0

-----------------------------------------------------------------------------
(* C9: start_streaming called while the service is running returns False,   *)
(* starts no worker and changes nothing; called while it is stopped it      *)
(* returns True, sets is_running, clears stop_event and starts exactly one  *)
(* worker, which becomes streaming_thread.                                  *)

C9_StartOnlyWhenStopped ==
    ~started.none =>
        /\ started.was_running =>
              ~started.ret /\ started.unchanged /\ started.spawned = 0
        /\ ~started.was_running =>
              /\ started.ret
              /\ started.is_running
              /\ ~started.stop_event
              /\ started.spawned = 1
              /\ started.thread_is_new

\* Both kinds of call have happened: a start that was refused while the
\* worker of an earlier, successful start is alive.
C9_Witness ==
    /\ ~started.none
    /\ started.was_running
    /\ ~started.ret
    /\ Len(workers) = 1
    /\ workers[1].pc = "cycle"

-----------------------------------------------------------------------------
(* C10: under every interleaving of start_streaming, stop_streaming and     *)
(* worker steps, a stop whose join times out included, at most one          *)
(* streaming worker loop is alive.                                          *)

InLoop(w) == workers[w].pc \in {"check", "cycle", "wait"}

C10_AtMostOneWorker ==
    Cardinality({w \in DOMAIN workers : InLoop(w)}) <= 1

-----------------------------------------------------------------------------
(* C11: stop_streaming always returns True; called on a service that is not *)
(* running it changes nothing; called on a running one it leaves            *)
(* is_running false and stop_event set, and a second call right after it    *)
(* leaves the state of the first.                                           *)

C11_StopIdempotent ==
    /\ LET once == stop_streaming(ServiceNow)
           twice == stop_streaming(once.svc)
       IN  /\ once.ret /\ twice.ret
           /\ twice.svc = once.svc
           /\ ~once.svc.is_running
           /\ is_running => once.svc.stop_event
           /\ ~is_running => once.svc = ServiceNow
    /\ ~stopped.none =>
          /\ stopped.ret
          /\ ~stopped.is_running
          /\ stopped.was_running => stopped.stop_event
          /\ ~stopped.was_running => stopped.unchanged

\* stop_streaming called again right after a call that stopped a running
\* service.
C11_Witness ==
    /\ ~stopped.none
    /\ stopped.repeated
    /\ ~stopped.was_running
    /\ stopped.unchanged
    /\ stop_event
    /\ ~is_running

-----------------------------------------------------------------------------
(* C12: when stop_streaming is called while the worker is in its wait       *)
(* between cycles, the worker sees stop_event at its next pass of the wait  *)
(* loop, leaves the loop without another second of sleep and without        *)
(* starting another cycle, and the thread ends: no step a worker takes with *)
(* stop_event set sleeps or starts a cycle, and the thread that             *)
(* stop_streaming joins while it waits ends.                                *)

\* Thread w takes a step with stop_event set.
StepsWhileStopped(w) ==
    /\ stop_event
    /\ w \in DOMAIN workers
    /\ workers'[w] # workers[w]

C12_NoSleepNoCycleAfterStop ==
    \A w \in 1..MaxWorkers :
        StepsWhileStopped(w) =>
            /\ workers[w].pc = "wait" =>
                  /\ workers'[w].pc = "check"
                  /\ workers'[w].wait_left = workers[w].wait_left
            /\ workers[w].pc = "check" => workers'[w].pc = "finally"
            /\ workers'[w].pc # "cycle"

JoinedWhileWaiting(w) ==
    /\ caller_pc = "join"
    /\ streaming_thread = w
    /\ workers[w].pc = "wait"

HasEnded(w) == w \in DOMAIN workers /\ workers[w].pc = "dead"

C12_StopDuringWaitEndsWorker ==
    /\ [][C12_NoSleepNoCycleAfterStop]_vars
    /\ \A w \in 1..MaxLiveWorkers : JoinedWhileWaiting(w) ~> HasEnded(w)

\* The joined thread has left its wait loop on stop_event with seconds of
\* the interval left, and is at the finally clause.
C12_Witness ==
    /\ caller_pc = "join"
    /\ stop_event
    /\ workers[streaming_thread].pc = "finally"
    /\ workers[streaming_thread].wait_left > 0
    /\ workers[streaming_thread].iteration > 0

-----------------------------------------------------------------------------
(* C13: a worker started with an integer max_iterations = m runs the        *)
(* pipeline at most m times: its iteration count never exceeds m.           *)

C13_AtMostMaxIterations ==
    \A w \in DOMAIN workers :
        workers[w].max_iterations.set =>
            workers[w].iteration <= workers[w].max_iterations.n

-----------------------------------------------------------------------------
(* C15: is_market_open, is_pre_market and is_after_hours are false when the *)
(* weekday of the instant is not a trading day and otherwise are exactly    *)
(* open <= hour < close, pre_market_start <= hour < open and close <= hour  *)
(* < after_hours_end; with the default schedule the market is closed on     *)
(* Saturday 10:00, open on Wednesday 10:00, closed on Wednesday 8:00,       *)
(* pre-market holds on Wednesday 6:00, after-hours holds on Wednesday 17:00 *)
(* and not on Wednesday 21:00.                                              *)

InHours(from, to) ==
    /\ asked_at.day % 7 \in market_schedule.trading_days
    /\ from <= asked_at.hour
    /\ asked_at.hour < to

Wednesday == 2
Saturday == 5

C15_MarketHours ==
    /\ answer # NoneVal /\ answer.op = "is_market_open" =>
          (answer.value <=> InHours(market_schedule.open_hour,
                                    market_schedule.close_hour))
    /\ answer # NoneVal /\ answer.op = "is_pre_market" =>
          (answer.value <=> InHours(market_schedule.pre_market_start,
                                    market_schedule.open_hour))
    /\ answer # NoneVal /\ answer.op = "is_after_hours" =>
          (answer.value <=> InHours(market_schedule.close_hour,
                                    market_schedule.after_hours_end))
    /\ LET default == MarketSchedule(MondayToFriday) IN
       /\ ~is_market_open(default, datetime(Saturday, 10, 0, 0))
       /\ is_market_open(default, datetime(Wednesday, 10, 0, 0))
       /\ ~is_market_open(default, datetime(Wednesday, 8, 0, 0))
       /\ is_pre_market(default, datetime(Wednesday, 6, 0, 0))
       /\ is_after_hours(default, datetime(Wednesday, 17, 0, 0))
       /\ ~is_after_hours(default, datetime(Wednesday, 21, 0, 0))

\* is_market_open has answered False for Saturday 10:00 under the default
\* schedule.
C15_Witness ==
    /\ answer # NoneVal
    /\ answer.op = "is_market_open"
    /\ ~answer.value
    /\ market_schedule = MarketSchedule(MondayToFriday)
    /\ asked_at = datetime(Saturday, 10, 0, 0)

-----------------------------------------------------------------------------
(* C16: get_next_market_open and get_next_market_close return today at the  *)
(* open resp. close hour, minute and second zero, when today is a trading   *)
(* day and now is before that instant, and otherwise that hour of the first *)
(* trading day after today; with the default schedule, Friday 20:00 gives   *)
(* the Monday after at 09:00.                                               *)

SecondOfDay(t) == (t.hour * 60 + t.minute) * 60 + t.second

\* value is the instant the claim names for the target hour.
IsNextAt(value, hour) ==
    /\ value.hour = hour /\ value.minute = 0 /\ value.second = 0
    /\ value.day % 7 \in market_schedule.trading_days
    /\ IF /\ asked_at.day % 7 \in market_schedule.trading_days
          /\ SecondOfDay(asked_at) < SecondOfDay(value)
       THEN value.day = asked_at.day
       ELSE /\ value.day > asked_at.day
            /\ \A day \in (asked_at.day + 1)..(value.day - 1) :
                  day % 7 \notin market_schedule.trading_days

Friday == 4

C16_NextOpenAndClose ==
    /\ answer # NoneVal /\ answer.op = "get_next_market_open" =>
          IsNextAt(answer.value, market_schedule.open_hour)
    /\ answer # NoneVal /\ answer.op = "get_next_market_close" =>
          IsNextAt(answer.value, market_schedule.close_hour)
    /\ get_next_market_open(MarketSchedule(MondayToFriday),
                            datetime(Friday, 20, 0, 0))
          = datetime(Friday + 3, 9, 0, 0)

\* get_next_market_open has answered for Friday 20:00 under the default
\* schedule, three days ahead.
C16_Witness ==
    /\ answer # NoneVal
    /\ answer.op = "get_next_market_open"
    /\ market_schedule = MarketSchedule(MondayToFriday)
    /\ asked_at = datetime(Friday, 20, 0, 0)
    /\ answer.value.day = asked_at.day + 3

-----------------------------------------------------------------------------
(* C14: the three schedule functions share one namespace of job names: a    *)
(* call with a name that is not registered returns True and stores the      *)
(* registration, with the type of the function called, after the others; a  *)
(* call with a registered name, through any of the three, returns False and *)
(* leaves every registration as it was.                                     *)

ScheduleOps ==
    [schedule_market_hours_job |-> "market_hours",
     schedule_pre_market_job |-> "pre_market",
     schedule_after_hours_job |-> "after_hours"]

IsScheduleCall ==
    sched_call # NoneVal /\ sched_call.op \in DOMAIN ScheduleOps

C14_OneNamespace ==
    /\ \A i, k \in DOMAIN scheduled_jobs :
          scheduled_jobs[i].name = scheduled_jobs[k].name => i = k
    /\ IsScheduleCall /\ sched_call.was_present =>
          ~sched_call.ret /\ sched_call.unchanged
    /\ IsScheduleCall /\ ~sched_call.was_present =>
          /\ sched_call.ret = TRUE
          /\ sched_call.others_kept
          /\ Len(scheduled_jobs) = sched_call.before + 1
          /\ LET stored == scheduled_jobs[Len(scheduled_jobs)] IN
             /\ stored.name = sched_call.job_name
             /\ stored.type = ScheduleOps[sched_call.op]

\* schedule_after_hours_job was refused for a name that
\* schedule_market_hours_job had registered.
C14_Witness ==
    /\ IsScheduleCall
    /\ sched_call.op = "schedule_after_hours_job"
    /\ sched_call.was_present
    /\ ~sched_call.ret
    /\ \E i \in DOMAIN scheduled_jobs :
          /\ scheduled_jobs[i].name = sched_call.job_name
          /\ scheduled_jobs[i].type = "market_hours"

-----------------------------------------------------------------------------
(* C17: run_scheduled_jobs returns one outcome for each registered job,     *)
(* with status success, skipped or error; the pipeline is called for a job  *)
(* exactly when the predicate of its type holds at its evaluation time, and *)
(* a job whose predicate is false is skipped.                               *)

IsRunCall == sched_call # NoneVal /\ sched_call.op = "run_scheduled_jobs"

\* The predicate of the type of the i-th job at the time it was evaluated.
PredicateHolds(i) ==
    LET type == scheduled_jobs[i].type
        t == sched_call.times[i]
    IN  \/ type = "market_hours" /\ is_market_open(market_schedule, t)
        \/ type = "pre_market" /\ is_pre_market(market_schedule, t)
        \/ type = "after_hours" /\ is_after_hours(market_schedule, t)

C17_OneOutcomePerJob ==
    IsRunCall =>
        /\ DOMAIN sched_call.ret = DOMAIN scheduled_jobs
        /\ \A i \in DOMAIN scheduled_jobs :
              LET outcome == sched_call.ret[i] IN
              /\ outcome.job_name = scheduled_jobs[i].name
              /\ outcome.status \in {"success", "skipped", "error"}
              /\ outcome.invoked <=> PredicateHolds(i)
              /\ ~PredicateHolds(i) => outcome.status = "skipped"
              /\ PredicateHolds(i) => outcome.status # "skipped"

\* A pass over two jobs that ran one and skipped the other.
C17_Witness ==
    /\ IsRunCall
    /\ Len(scheduled_jobs) = 2
    /\ \E i, k \in DOMAIN scheduled_jobs :
          /\ sched_call.ret[i].status = "success"
          /\ sched_call.ret[i].invoked
          /\ sched_call.ret[k].status = "skipped"
          /\ ~sched_call.ret[k].invoked
          /\ scheduled_jobs[i].type = "pre_market"

-----------------------------------------------------------------------------
(* C18: in run_scheduled_jobs a job whose run returned has outcome success  *)
(* also when its callback raised, the call returns its results, and a job   *)
(* with outcome error does not keep any other job from getting its outcome. *)

C18_ErrorsStayWithTheirJob ==
    IsRunCall =>
        /\ Len(sched_call.ret) = Len(scheduled_jobs)
        /\ \A i \in DOMAIN scheduled_jobs :
              LET outcome == sched_call.ret[i] IN
              /\ outcome.called_back =>
                    /\ outcome.status = "success"
                    /\ scheduled_jobs[i].callback # "none"
              /\ outcome.status = "success" =>
                    (outcome.called_back <=>
                        scheduled_jobs[i].callback # "none")
              /\ outcome.status = "error" =>
                    /\ outcome.invoked
                    /\ \A k \in DOMAIN scheduled_jobs :
                          k # i =>
                             (sched_call.ret[k].status = "skipped"
                                 <=> ~PredicateHolds(k))

\* A pass in which the first job raised and the second, whose callback
\* raised, has outcome success.
C18_Witness ==
    /\ IsRunCall
    /\ Len(scheduled_jobs) = 2
    /\ sched_call.ret[1].status = "error"
    /\ sched_call.ret[2].status = "success"
    /\ sched_call.ret[2].called_back
    /\ scheduled_jobs[2].callback = "raises"

-----------------------------------------------------------------------------
(* C19: remove_scheduled_job returns False and changes nothing for a name   *)
(* that is not registered; for a registered name it returns True, removes   *)
(* that registration and no other, and a schedule call with the same name   *)
(* right after it returns True.                                             *)

IsRemoveCall ==
    sched_call # NoneVal /\ sched_call.op = "remove_scheduled_job"

C19_RemoveExactlyOne ==
    /\ IsRemoveCall /\ ~sched_call.was_present =>
          ~sched_call.ret /\ sched_call.unchanged
    /\ IsRemoveCall /\ sched_call.was_present =>
          /\ sched_call.ret = TRUE
          /\ sched_call.job_name \notin JobKeys(scheduled_jobs)
          /\ sched_call.others_kept
          /\ Len(scheduled_jobs) = sched_call.before - 1
    /\ IsScheduleCall /\ sched_call.after_removal => sched_call.ret = TRUE

\* A name removed while another stayed registered, and registered again.
C19_Witness ==
    /\ IsScheduleCall
    /\ sched_call.after_removal
    /\ sched_call.ret = TRUE
    /\ Len(scheduled_jobs) = 2

-----------------------------------------------------------------------------
(* C20: load_stock for a symbol that has a row returns True, when its       *)
(* SELECT is answered, and leaves the row as it is; whatever the loader is  *)
(* called with, the stocks table never holds two rows of one symbol and a   *)
(* row, once written, is never changed or removed.                          *)

IsLoadStock == loaded # NoneVal /\ loaded.op = "load_stock"

OneRowPerSymbol ==
    \A a, b \in stocks : a.symbol = b.symbol => a = b

PresentStockIsSuccess ==
    IsLoadStock /\ loaded.was_present /\ ~loaded.select_raised => loaded.ok

C20_StockRowsKept ==
    /\ []OneRowPerSymbol
    /\ []PresentStockIsSuccess
    /\ [][\A row \in stocks : row \in stocks']_vars

\* load_stock has returned True for a symbol whose row carries another
\* company name than the Stock it was given.
C20_Witness ==
    /\ IsLoadStock
    /\ loaded.was_present
    /\ loaded.ok
    /\ \E row \in stocks :
          /\ row.symbol = loaded.stock.symbol
          /\ row.company_name # loaded.stock.company_name

-----------------------------------------------------------------------------
(* C21: in load_intraday_prices a record that fails to persist does not end *)
(* the batch: every record is attempted, in order; a record that was        *)
(* written is stored after the call and a record that failed leaves the     *)
(* rows under its key as they were; the count returned is the number of     *)
(* records written, between 0 and the number of records.                    *)

IsBatchLoad ==
    /\ loaded # NoneVal
    /\ loaded.op = "load_intraday_prices"
    /\ "each" \in DOMAIN loaded

\* The rows now stored under the key of the k-th record of the batch.
NowUnder(k) ==
    SelectSeq(stock_prices_intraday,
              LAMBDA row : SameKey(row, loaded.records[k]))

C21_BatchGoesOnAfterFailure ==
    IsBatchLoad =>
        /\ Len(loaded.each) = Len(loaded.records)
        /\ loaded.statements >= Len(loaded.records)
        /\ loaded.count = Cardinality({k \in DOMAIN loaded.each : loaded.each[k]})
        /\ loaded.count >= 0 /\ loaded.count <= Len(loaded.records)
        /\ \A k \in DOMAIN loaded.records :
              /\ loaded.each[k] =>
                    /\ NowUnder(k) # <<>>
                    /\ \A i \in DOMAIN NowUnder(k) :
                          NowUnder(k)[i] = loaded.records[k]
              /\ ~loaded.each[k] => NowUnder(k) = loaded.replaced[k]

\* A batch of two whose first record failed and whose second was stored.
C21_Witness ==
    /\ IsBatchLoad
    /\ Len(loaded.records) = 2
    /\ ~loaded.each[1]
    /\ loaded.each[2]
    /\ loaded.count = 1
    /\ NowUnder(2) # <<>>

-----------------------------------------------------------------------------
(* C22: when the stock insert or a price upsert fails during a load, the    *)
(* job-log row of that load has status FAILED.                              *)

IsLoadTransformed ==
    loaded # NoneVal /\ loaded.op = "load_transformed_data"

\* The load did not store its stock, or stored fewer records than given.
SomeWriteFailed ==
    ~loaded.ok \/ loaded.count < Len(loaded.records)

C22_FailedWriteLogsFailed ==
    IsLoadTransformed /\ ~loaded.logfail /\ SomeWriteFailed =>
        /\ Len(loaded.new_logs) = 1
        /\ loaded.new_logs[1].status = "FAILED"

\* C23: a call of extract_intraday_data issues at most one request and never
\* retries, and one call of process_multiple_stocks_intraday issues exactly one
\* request for every listed symbol, the failed ones included.
C23_OneRequestPerListedSymbol ==
    /\ \A k \in 1..Len(history) : history[k].requests <= 1
    /\ (idx = Len(symbols) /\ Len(history) = Len(symbols)
            => \A k \in 1..Len(history) : history[k].requests = 1)

\* C24: a well-formed response whose time series has no data points is not an
\* error: the extraction is not reported as failed and no FAILED job is
\* recorded for that symbol because of it.
C24_EmptySeriesCall ==
    /\ last # NoneVal
    /\ last.response = "empty series"

C24_EmptySeriesIsNoFailure ==
    C24_EmptySeriesCall =>
        /\ last.failed # "extract"
        /\ \A k \in 1..Len(last.new_logs) : last.new_logs[k].status # "FAILED"

\* C25: transform_intraday_data fails only when the payload is absent or has
\* no time-series container; a payload whose entries are all rejected gives a
\* successful transform with an empty record list.
C25_PayloadWithContainer ==
    /\ last # NoneVal
    /\ last.response = "entries"

C25_TransformFailsOnlyWithoutContainer ==
    C25_PayloadWithContainer =>
        /\ last.failed # "transform"
        /\ \E k \in 1..Len(last.stages) : last.stages[k] = "load"

\* C26: for the same symbol list, provider responses and store behaviour,
\* run_etl_pipeline and process_multiple_stocks_intraday leave the same stock
\* and price rows, the same number of records loaded for every symbol and the
\* same job-log rows (name and status).
C26_JobRows(logs) ==
    [k \in 1..Len(logs) |->
        [job_name |-> logs[k].job_name, status |-> logs[k].status]]

C26_Outcome(record) ==
    [stocks |-> record.stocks, prices |-> record.prices,
     counts |-> record.counts, job_rows |-> C26_JobRows(record.new_logs)]

C26_OtherWay ==
    IF last.op = "run_etl_pipeline"
    THEN LET r == process_multiple_stocks_intraday(last.before, last.symbols,
                      "5min", last.pool_init_ok, last.responses)
         IN  RunRecord("process_multiple_stocks_intraday", last.before,
                       last.symbols, last.pool_init_ok, last.responses, r.s,
                       FALSE, r.results)
    ELSE LET r == run_etl_pipeline(last.before, last.symbols, "5min",
                      last.pool_init_ok, last.responses)
         IN  RunRecord("run_etl_pipeline", last.before, last.symbols,
                       last.pool_init_ok, last.responses, r.s, r.exc,
                       total_loaded(r.loading_results))

C26_SameOutcomeEitherWay ==
    last # NoneVal => C26_Outcome(last) = C26_Outcome(C26_OtherWay)

\* C27: an exception raised by the pipeline call or by the callback during a
\* streaming cycle is caught inside the worker: the cycle step, whatever it
\* did, leaves is_running and stop_event alone and takes the worker to its
\* wait, from where it goes on to the next cycle.
C27_CycleStep(w) ==
    /\ w \in DOMAIN workers
    /\ workers[w].pc = "cycle"
    /\ workers'[w] # workers[w]

C27_ExceptionStaysInsideCycle ==
    [][\A w \in 1..MaxLiveWorkers :
         C27_CycleStep(w) =>
            /\ workers'[w].pc = "wait"
            /\ workers'[w].wait_left = workers[w].wait_seconds
            /\ workers'[w].iteration = workers[w].iteration
            /\ is_running' = is_running
            /\ stop_event' = stop_event]_vars

\* A cycle of the worker raised while the service was running, and the same
\* worker is in a later cycle with the service still running.
C27_Witness ==
    /\ last # NoneVal
    /\ last.outcome \in {"pipeline raised", "callback raised"}
    /\ last.is_running
    /\ workers[last.worker].pc = "cycle"
    /\ is_running
    /\ ~stop_event

\* C28: a SIGINT or SIGTERM that arrives while a streaming loop is active in
\* the process started through the CLI runner makes stop_streaming run (the
\* stop event set and the loop asked to exit) before the process exits.
C28_SignalWhileStreaming ==
    /\ signalled # NoneVal
    /\ signalled.is_running
    /\ signalled.thread_alive
    /\ ~signalled.stop_event

C28_SignalStopsStreaming ==
    exited /\ C28_SignalWhileStreaming =>
        /\ signalled.stop_streaming
        /\ stop_event
        /\ ~is_running

\* C29: the job log is append-only: every step of a pipeline run leaves the
\* rows that are there as they are and in place; rows are only added at the
\* end.
C29_JobLogAppendOnly ==
    [][/\ Len(etl_job_logs') >= Len(etl_job_logs)
       /\ SubSeq(etl_job_logs', 1, Len(etl_job_logs)) = etl_job_logs]_vars

\* A call for a symbol has added a row behind the row of an earlier call for
\* the same symbol, which is still there.
C29_Witness ==
    /\ Len(etl_job_logs) >= 2
    /\ last # NoneVal
    /\ Len(last.new_logs) = 1
    /\ etl_job_logs[Len(etl_job_logs)] = last.new_logs[1]
    /\ etl_job_logs[1].job_name = last.new_logs[1].job_name
    /\ etl_job_logs[1].status # last.new_logs[1].status

\* C30: acquisition of the rate limiter is strictly ordered for the threads of
\* the process: every request was admitted on the last-call time of the
\* request sent before it (none on a stale one), and no two requests go out
\* less than rate_limit_delay apart.
C30_NoStaleRead ==
    \A k \in 1..Len(admitted) :
        admitted[k].seen = IF k = 1 THEN 0 ELSE admitted[k - 1].stamped

C30_Spaced ==
    \A i, j \in 1..Len(admitted) :
        i < j => admitted[j].time - admitted[i].time >= rate_limit_delay

C30_StrictlyOrdered == C30_NoStaleRead /\ C30_Spaced

\* C31: in run_etl_pipeline every symbol is extracted before any is
\* transformed and every transformation is made before any load; a symbol
\* whose extraction or transformation gave no data is not passed to the next
\* stage and is reported as an unsuccessful load.
C31_IsPhasedRun ==
    /\ last # NoneVal
    /\ last.op = "run_etl_pipeline"
    /\ ~last.exc

C31_StageRank(stage) ==
    CASE stage = "extract" -> 1 [] stage = "transform" -> 2 [] OTHER -> 3

C31_Called(stage, x) ==
    \E k \in 1..Len(last.calls) : last.calls[k] = StageCall(stage, x)

\* What the last listing of symbol x was answered with gives, per stage.
C31_Raw(x) ==
    LET k == CHOOSE j \in 1..Len(last.symbols) :
                /\ last.symbols[j] = x
                /\ \A i \in (j + 1)..Len(last.symbols) : last.symbols[i] # x
    IN  extract_intraday_data(x, "5min", last.responses[k])

C31_NoData(x) ==
    \/ C31_Raw(x).none
    \/ transform_intraday_data(C31_Raw(x)).none

C31_PhasesInOrder ==
    C31_IsPhasedRun =>
        /\ \A i, j \in 1..Len(last.calls) :
              i < j => C31_StageRank(last.calls[i].stage)
                          <= C31_StageRank(last.calls[j].stage)
        /\ \A k \in 1..Len(last.symbols) :
              last.calls[k] = StageCall("extract", last.symbols[k])
        /\ \A x \in {last.symbols[k] : k \in 1..Len(last.symbols)} :
              /\ C31_Raw(x).none => ~C31_Called("transform", x)
              /\ C31_NoData(x) =>
                    /\ ~C31_Called("load", x)
                    /\ ~last.success[x]
                    /\ last.counts[x] = 0
              /\ ~C31_NoData(x) => C31_Called("load", x)

\* Two different symbols, the first without data and the second loaded.
C31_Witness ==
    /\ C31_IsPhasedRun
    /\ Len(last.symbols) = 2
    /\ last.symbols[1] # last.symbols[2]
    /\ C31_NoData(last.symbols[1])
    /\ ~C31_Raw(last.symbols[1]).none
    /\ ~C31_NoData(last.symbols[2])
    /\ last.success[last.symbols[2]]
    /\ last.calls[3] = StageCall("transform", last.symbols[1])

\* C32: for every instant and every set of trading days with a weekday in
\* it, the day-by-day scan of get_next_market_open and get_next_market_close
\* ends after at most 7 days added and gives an instant on a trading day.
C32_IsNextQuestion ==
    /\ answer # NoneVal
    /\ answer.op \in {"get_next_market_open", "get_next_market_close"}
    /\ \E d \in 0..6 : d \in market_schedule.trading_days

C32_ScanWithinAWeek ==
    C32_IsNextQuestion =>
        /\ answer.value.day - asked_at.day \in 0..7
        /\ weekday(answer.value) \in market_schedule.trading_days

\* The scan went all the way round: the only trading day is today's weekday
\* and today's hour has passed.
C32_Witness ==
    /\ C32_IsNextQuestion
    /\ answer.op = "get_next_market_close"
    /\ market_schedule.trading_days = {Wednesday}
    /\ answer.value.day - asked_at.day = 7

-----------------------------------------------------------------------------
(* C33: every connection execute_query borrows is back in the pool when     *)
(* execute_query returns or raises, after the commit on success and after   *)
(* the rollback on error; so a thread holds a connection only inside        *)
(* execute_query, never between statements, during the wait of the rate     *)
(* limiter or during the request to the provider.                           *)

C33_Holds(t) == \E c \in Conns : borrowed[c] = t

C33_ReturnedBeforeLeaving ==
    \A t \in DOMAIN pipelines :
        /\ C33_Holds(t) =>
              pipelines[t].at \in {"execute", "commit", "except", "finally"}
        /\ pipelines[t].stage \in {"rate_limit", "request"} => ~C33_Holds(t)
        /\ pipelines[t].at = "returned" =>
              /\ pipelines[t].conn # NoConn
              /\ pipelines[t].did = "commit"
        /\ (pipelines[t].at = "raised" /\ pipelines[t].conn # NoConn) =>
              pipelines[t].did = "rollback"

\* One thread's execute_query raised after a rollback, the connection it had
\* is in the pool, and the other thread is sending its request.
C33_Witness ==
    \E t, u \in DOMAIN pipelines :
        /\ pipelines[t].at = "raised"
        /\ pipelines[t].conn # NoConn
        /\ pipelines[t].did = "rollback"
        /\ borrowed[pipelines[t].conn] = 0
        /\ pipelines[u].stage = "request"

-----------------------------------------------------------------------------
(* C34: when pre_market_start <= open_hour <= close_hour <= after_hours_end *)
(* the three windows are disjoint: at every instant at most one of          *)
(* is_pre_market, is_market_open and is_after_hours is true, and all three  *)
(* are false on a day that is not a trading day.                            *)

C34_Ordered ==
    /\ market_schedule.pre_market_start <= market_schedule.open_hour
    /\ market_schedule.open_hour <= market_schedule.close_hour
    /\ market_schedule.close_hour <= market_schedule.after_hours_end

\* The windows the instant asked about is in, by the three functions.
C34_Windows ==
    {w \in {"is_pre_market", "is_market_open", "is_after_hours"} :
        \/ w = "is_pre_market" /\ is_pre_market(market_schedule, asked_at)
        \/ w = "is_market_open" /\ is_market_open(market_schedule, asked_at)
        \/ w = "is_after_hours" /\ is_after_hours(market_schedule, asked_at)}

C34_WindowsDisjoint ==
    (/\ answer # NoneVal
     /\ answer.op \in {"is_pre_market", "is_market_open", "is_after_hours"}
     /\ C34_Ordered) =>
        /\ answer.value = (answer.op \in C34_Windows)
        /\ answer.value = TRUE => C34_Windows = {answer.op}
        /\ weekday(asked_at) \notin market_schedule.trading_days =>
              answer.value = FALSE /\ C34_Windows = {}

\* The market has just closed on a trading day of the default hours:
\* is_after_hours says yes at 16:00:00, the other two say no.
C34_Witness ==
    /\ answer # NoneVal
    /\ answer.op = "is_after_hours"
    /\ answer.value = TRUE
    /\ C34_Ordered
    /\ asked_at.hour = market_schedule.close_hour
    /\ asked_at.minute = 0
    /\ market_schedule.pre_market_start < market_schedule.open_hour
    /\ C34_Windows = {"is_after_hours"}

-----------------------------------------------------------------------------
(* C37: get_next_market_open(now) is strictly later than now, also when now *)
(* is the instant of today's open, and it is on a trading day, at the open  *)
(* hour, with minute and second zero.                                       *)

C37_NextOpenIsLater ==
    (answer # NoneVal /\ answer.op = "get_next_market_open") =>
        /\ Earlier(asked_at, answer.value)
        /\ weekday(answer.value) \in market_schedule.trading_days
        /\ answer.value.hour = market_schedule.open_hour
        /\ answer.value.minute = 0
        /\ answer.value.second = 0

\* Asked at the instant of the open on a trading day, the function has
\* answered with the open of a later day.
C37_Witness ==
    /\ answer # NoneVal
    /\ answer.op = "get_next_market_open"
    /\ weekday(asked_at) \in market_schedule.trading_days
    /\ asked_at = datetime(asked_at.day, market_schedule.open_hour, 0, 0)
    /\ answer.value.day > asked_at.day

-----------------------------------------------------------------------------
(* C35: once stop_streaming has returned, a worker that was running before  *)
(* the call starts no further cycle (no further call of                     *)
(* process_multiple_stocks_intraday), whatever follows, a later             *)
(* start_streaming included.                                                *)

\* The last stop_streaming call found the service running, stopped it and
\* has returned; worker w had been started before that call.
C35_StoppedBefore(w) ==
    /\ stopped # NoneVal
    /\ stopped.was_running
    /\ caller_pc = "idle"
    /\ w <= stopped.threads

C35_NoCycleAfterStop ==
    [][\A w \in DOMAIN workers :
          (C35_StoppedBefore(w) /\ workers[w].pc # "cycle") =>
              workers'[w].pc # "cycle"]_vars

-----------------------------------------------------------------------------
(* C36: when a worker launched by start_streaming is alive and              *)
(* stop_streaming has not been called since that start,                     *)
(* get_streaming_status reports is_running = True: the exit of an earlier   *)
(* worker does not reset is_running while a newer worker is active.         *)

\* No stop_streaming call since the thread started last was started.
C36_NoStopSinceStart ==
    stopped = NoneVal \/ stopped.threads < Len(workers)

C36_RunningWhileWorkerAlive ==
    (/\ streaming_thread # 0
     /\ is_alive(ServiceNow, streaming_thread)
     /\ C36_NoStopSinceStart) =>
        get_streaming_status(ServiceNow).is_running

-----------------------------------------------------------------------------
(* C40: with max_iterations = m >= 1 and no stop call, the worker stops as  *)
(* soon as its m-th cycle is over: it does not wait a further interval      *)
(* between cycles before is_running becomes False.                          *)

-----------------------------------------------------------------------------
(* C38: for every interleaving of two loaders that upsert the same          *)
(* (symbol, timestamp, interval) key, the check and the insert or update    *)
(* being separate committed statements, the table never holds more than one *)
(* row for that key.                                                        *)

C38_OneRowPerKey ==
    \A i, j \in DOMAIN stock_prices_intraday :
        SameKey(stock_prices_intraday[i], stock_prices_intraday[j]) => i = j

-----------------------------------------------------------------------------
(* C39: when the callback of a job registers or removes a job on the        *)
(* scheduler while run_scheduled_jobs iterates over the registry, the pass  *)
(* still ends without raising and returns an outcome for every job that was *)
(* registered when it began.                                                *)

C39_PassCompletes ==
    (sched_call # NoneVal /\ sched_call.op = "run_scheduled_jobs") =>
        /\ ~sched_call.raised
        /\ \A job_name \in sched_call.registered :
              \E i \in DOMAIN sched_call.ret :
                  sched_call.ret[i].job_name = job_name

=============================================================================
